---- MODULE Spec2Model ----
(***************************************************************************)
(* Dependency discovery, classification and ranking pipeline of            *)
(* dependency_scanner.py (class DependencyScanner), the requirements.txt   *)
(* rewrite of pr_creator.py, the usage search of code_impact_analyzer.py   *)
(* and the workflow of main.py / run.py.                                   *)
(*                                                                         *)
(* A version string is a sequence of tokens, e.g. "1.0.0+build" is         *)
(* <<"1", ".", "0", ".", "0", "+", "build">>.  A numeric component is one  *)
(* digit token.  Parsing a string (semver for npm, packaging.version for   *)
(* pip/maven/gradle) is computed on the tokens.                            *)
(***************************************************************************)
EXTENDS Integers, Sequences, FiniteSets, TLC

VARIABLES
    files,               \* marker files present in the repository root
    temp_dir_exists,     \* whether <cwd>/temp_audit exists
    pc,                  \* position of the running operation
    project_type,        \* result of detect_project_type ("" before the call)
    dependencies,        \* the list built by _scan_*_dependencies
    scan_index,          \* number of entries of dependencies already enriched
    min_severity,        \* argument of get_upgrade_candidates
    upgrade_candidates,  \* the list returned by get_upgrade_candidates
    raised,              \* exception that escaped the operation ("" if none)
    audit,               \* last stand-alone _check_vulnerabilities call
    resolved,            \* last call of a _get_*_latest_version resolver
    manifest,            \* content of the manifest file before the operation
    written,             \* outcome of _update_pip_dependency: file content
    dependency_name,     \* argument of AutomatedUpgradeWorkflow.run
    target_dependency,   \* the candidate run has selected (<<>> if none)
    steps,               \* collaborator steps run has performed, in order
    run_result,          \* the dict returned by run
    exit_status,         \* exit status of the process (-1 while it runs)
    source,              \* content of the source file searched for usages
    usages,              \* the list returned by a _find_*_dependency_usage
    package_name_candidates, \* candidates of _find_java_dependency_usage
    repo_path,           \* the repository path given to the analyzer
    tree,                \* the files os.walk finds below repo_path
    max_examples,        \* argument of extract_api_usage_examples
    opened,              \* files extract_api_usage_examples has opened
    examples,            \* the list extract_api_usage_examples returns
    registry_versions,   \* the versions "npm view <name> versions" lists
    report,              \* the dict analyze_breaking_changes returns
    affected_files,      \* the list get_affected_files returns
    test_framework,      \* what detect_test_framework finds in the repository
    test_results         \* the dict run_tests returned to run

\* the state of dependency_scanner.py's ranking pipeline
scannerVars == <<files, temp_dir_exists, project_type, dependencies,
                 scan_index, min_severity, upgrade_candidates, audit>>

\* the state of the other operations
laterVars == <<resolved, manifest, written, dependency_name,
               target_dependency, steps, run_result, exit_status, source,
               usages>>

\* the state of code_impact_analyzer.py's operations and of run_tests
analyzerVars == <<package_name_candidates, repo_path, tree, max_examples,
                  opened, examples, registry_versions, report, affected_files,
                  test_framework, test_results>>

vars == <<files, temp_dir_exists, pc, project_type, dependencies, scan_index,
          min_severity, upgrade_candidates, raised, audit, resolved, manifest,
          written, dependency_name, target_dependency, steps, run_result,
          exit_status, source, usages, package_name_candidates, repo_path,
          tree, max_examples, opened, examples, registry_versions, report,
          affected_files, test_framework, test_results>>

----------------------------------------------------------------------------
(* Bounds *)

\* largest numeric component of a version string
MaxComp == 1
\* largest number of declared dependencies in a manifest
MaxDeps == 2
\* largest number of lines of a text file
MaxLines == 3
\* largest number of characters of a dependency name
MaxName == 4
\* largest number of files of a repository tree
MaxFiles == 2
\* largest max_examples tried besides the default
MaxExamples == 2
\* most lines of the file a snippet is taken from
MaxFileLines == 22
\* largest major and minor number of a version npm lists
MaxListed == 1
\* largest number of versions npm lists
MaxVersions == 2

----------------------------------------------------------------------------
(* Version strings *)

Digits == <<"0", "1", "2", "3", "4", "5", "6", "7", "8", "9">>

IsDigit(t) == \E i \in 1..Len(Digits) : Digits[i] = t

DigitValue(t) == (CHOOSE i \in 1..Len(Digits) : Digits[i] = t) - 1

\* the sentinel the version resolvers return
Unknown == <<"unknown">>

\* a declared version that is no version number, such as "*"
Star == <<"*">>

RECURSIVE Dotted(_)
Dotted(release) ==
    IF Len(release) = 1 THEN <<Digits[release[1] + 1]>>
    ELSE Dotted(SubSeq(release, 1, Len(release) - 1))
             \o <<".", Digits[release[Len(release)] + 1]>>

Releases ==
    UNION {[1..n -> 0..MaxComp] : n \in 2..3}

\* "1.0", "1.0.0", "1.0.0+build", ...
NumberedVersions ==
    {Dotted(r) : r \in Releases} \cup {Dotted(r) \o <<"+", "build">> : r \in Releases}

AllVersions == NumberedVersions \cup {Star}

\* index of the first "+" of s, or Len(s) + 1
PlusAt(s) ==
    IF \E i \in 1..Len(s) : s[i] = "+"
    THEN CHOOSE i \in 1..Len(s) : s[i] = "+" /\ \A j \in 1..(i - 1) : s[j] # "+"
    ELSE Len(s) + 1

\* the part before the "+": d.d.d
IsDottedNumbers(core) ==
    /\ Len(core) % 2 = 1
    /\ \A i \in 1..Len(core) :
          IF i % 2 = 1 THEN IsDigit(core[i]) ELSE core[i] = "."

\* the part from the "+" on: empty, or "+" and an identifier
IsBuildSuffix(tail) ==
    \/ tail = <<>>
    \/ /\ Len(tail) = 2
       /\ tail[1] = "+"
       /\ tail[2] \notin {".", "+", "*"}

NoVersion == [ok |-> FALSE, major |-> 0, minor |-> 0, patch |-> 0]

Component(core, k) ==
    IF 2 * k - 1 <= Len(core) THEN DigitValue(core[2 * k - 1]) ELSE 0

\* semver.VersionInfo.parse: exactly major.minor.patch, optional +build
semver_parse(s) ==
    LET core == SubSeq(s, 1, PlusAt(s) - 1)
        tail == SubSeq(s, PlusAt(s), Len(s))
    IN  IF Len(core) = 5 /\ IsDottedNumbers(core) /\ IsBuildSuffix(tail)
        THEN [ok |-> TRUE, major |-> Component(core, 1),
              minor |-> Component(core, 2), patch |-> Component(core, 3)]
        ELSE NoVersion

\* packaging.version.parse: a release of any length, missing components
\* read as 0, optional +local
version_parse(s) ==
    LET core == SubSeq(s, 1, PlusAt(s) - 1)
        tail == SubSeq(s, PlusAt(s), Len(s))
    IN  IF IsDottedNumbers(core) /\ IsBuildSuffix(tail)
        THEN [ok |-> TRUE, major |-> Component(core, 1),
              minor |-> Component(core, 2), patch |-> Component(core, 3)]
        ELSE NoVersion

----------------------------------------------------------------------------
(* detect_project_type *)

MarkerFiles ==
    {"package.json", "pom.xml", "requirements.txt", "setup.py",
     "build.gradle", "build.gradle.kts"}

\* faulty variant: the Python manifests are looked for before pom.xml
detect_project_type_pip_first(fs) ==
    IF "package.json" \in fs THEN "npm"
    ELSE IF "requirements.txt" \in fs \/ "setup.py" \in fs THEN "pip"
    ELSE IF "pom.xml" \in fs THEN "maven"
    ELSE IF "build.gradle" \in fs \/ "build.gradle.kts" \in fs THEN "gradle"
    ELSE "unknown"

detect_project_type(fs) ==
    IF "package.json" \in fs THEN "npm"
    ELSE IF "pom.xml" \in fs THEN "maven"
    ELSE IF "requirements.txt" \in fs \/ "setup.py" \in fs THEN "pip"
    ELSE IF "build.gradle" \in fs \/ "build.gradle.kts" \in fs THEN "gradle"
    ELSE "unknown"

----------------------------------------------------------------------------
(* Update classification (the same code in the four _scan_* methods) *)

\* faulty variant: minor compared before major
compare_versions_minor_first(current_ver, latest_ver) ==
    IF latest_ver.minor > current_ver.minor THEN "minor"
    ELSE IF latest_ver.major > current_ver.major THEN "major"
    ELSE "patch"

compare_versions(current_ver, latest_ver) ==
    IF latest_ver.major > current_ver.major THEN "major"
    ELSE IF latest_ver.minor > current_ver.minor THEN "minor"
    ELSE "patch"

\* faulty variant: a parse failure falls through to the comparison
npm_update_type_no_except(current_version, latest_version) ==
    IF latest_version # current_version
    THEN compare_versions(semver_parse(current_version),
                          semver_parse(latest_version))
    ELSE "none"

npm_update_type(current_version, latest_version) ==
    IF latest_version # current_version
    THEN LET current_semver == semver_parse(current_version)
             latest_semver == semver_parse(latest_version)
         IN  IF current_semver.ok /\ latest_semver.ok
             THEN compare_versions(current_semver, latest_semver)
             ELSE "unknown"
    ELSE "none"

\* pip, maven and gradle
pep440_update_type(current_version, latest_version) ==
    IF latest_version # current_version
    THEN LET current_ver == version_parse(current_version)
             latest_ver == version_parse(latest_version)
         IN  IF current_ver.ok /\ latest_ver.ok
             THEN compare_versions(current_ver, latest_ver)
             ELSE "unknown"
    ELSE "none"

update_type(ptype, current_version, latest_version) ==
    IF ptype = "npm"
    THEN npm_update_type(current_version, latest_version)
    ELSE pep440_update_type(current_version, latest_version)

\* the parser the scan of a project type uses
ParseFor(ptype, s) ==
    IF ptype = "npm" THEN semver_parse(s) ELSE version_parse(s)

----------------------------------------------------------------------------
(* _check_vulnerabilities *)

Severities == {"low", "medium", "high", "critical"}

\* what "npm audit --json" printed: text that is no JSON, JSON that is no
\* object, or an object whose "vulnerabilities" member is absent, no
\* object, or an object with one entry
AuditEntries ==
    [name : {"self", "other"},
     severity : Severities \cup {"absent"},
     title : {"absent", "Prototype Pollution"},
     fixAvailable : {"absent", "true", "object", "object_with_version"}]

NoEntry ==
    [name |-> "other", severity |-> "absent", title |-> "absent",
     fixAvailable |-> "absent"]

AuditOutputs ==
    [kind : {"malformed", "not_object", "no_vulnerabilities", "not_dict"},
     entry : {NoEntry}]
    \cup [kind : {"entries"}, entry : AuditEntries]

\* the outcome of each step of one call
AuditEnvs ==
    [makedirs : {"ok", "OSError"},
     write : {"ok", "OSError"},
     run : {"ok", "FileNotFoundError"},
     rmtree : {"ok", "OSError"},
     rmtree_retry : {"ok", "OSError"},
     returncode : {0, 1},
     stdout : AuditOutputs]

\* what a call leaves: the list it returns, whether temp_audit exists, whether
\* os.makedirs and subprocess.run were called, the exception that escaped
Returned(result, dir, makedirs_called, run_called) ==
    [result |-> result, dir |-> dir, makedirs_called |-> makedirs_called,
     run_called |-> run_called, raised |-> ""]

\* faulty variant: the outermost handler lets the exception through
outer_except_reraise(dir, run_called) ==
    [result |-> <<>>, dir |-> dir, makedirs_called |-> TRUE,
     run_called |-> run_called, raised |-> "Exception"]

\* except Exception as e: print, return []
outer_except(dir, run_called) ==
    Returned(<<>>, dir, TRUE, run_called)

\* bare except: shutil.rmtree(temp_dir) again, return []
inner_except(dir, env) ==
    IF dir
    THEN IF env.rmtree_retry = "ok"
         THEN Returned(<<>>, FALSE, TRUE, TRUE)
         ELSE outer_except(TRUE, TRUE)
    ELSE outer_except(FALSE, TRUE)   \* rmtree of the removed directory raises

\* json.loads and the loop over audit_data["vulnerabilities"]
parse_audit(stdout) ==
    CASE stdout.kind = "malformed" -> [ok |-> TRUE, vulnerabilities |-> <<>>]
      [] stdout.kind = "not_object" -> [ok |-> FALSE, vulnerabilities |-> <<>>]
      [] stdout.kind = "no_vulnerabilities" -> [ok |-> TRUE, vulnerabilities |-> <<>>]
      [] stdout.kind = "not_dict" -> [ok |-> FALSE, vulnerabilities |-> <<>>]
      [] stdout.kind = "entries" ->
            LET e == stdout.entry
            IN  IF e.name # "self"
                THEN [ok |-> TRUE, vulnerabilities |-> <<>>]
                ELSE IF e.fixAvailable = "true"
                THEN [ok |-> FALSE, vulnerabilities |-> <<>>]
                ELSE [ok |-> TRUE,
                      vulnerabilities |->
                        <<[severity |->
                             IF e.severity = "absent" THEN "unknown"
                             ELSE e.severity,
                           description |->
                             IF e.title = "absent"
                             THEN "No description available" ELSE e.title,
                           fixed_in |->
                             IF e.fixAvailable = "object_with_version"
                             THEN "fixed" ELSE "unknown"]>>]

check_vulnerabilities(fs, dir, env) ==
    IF "package.json" \notin fs THEN Returned(<<>>, dir, FALSE, FALSE)
    ELSE IF env.makedirs # "ok" THEN outer_except(dir, FALSE)
    ELSE IF env.write # "ok" THEN outer_except(TRUE, FALSE)
    ELSE IF env.run # "ok" THEN inner_except(TRUE, env)
    ELSE IF env.rmtree # "ok" THEN inner_except(TRUE, env)
    ELSE IF env.returncode = 0 THEN Returned(<<>>, FALSE, TRUE, TRUE)
    ELSE LET audit_data == parse_audit(env.stdout)
         IN  IF audit_data.ok
             THEN Returned(audit_data.vulnerabilities, FALSE, TRUE, TRUE)
             ELSE inner_except(FALSE, env)

----------------------------------------------------------------------------
(* get_upgrade_candidates *)

MinSeverities == {"low", "medium", "high", "critical"}

counts_toward_high(severity, min_sev) ==
    \/ severity \in {"critical", "high"}
    \/ (severity = "medium" /\ min_sev \in {"medium", "low"})
    \/ (severity = "low" /\ min_sev = "low")

has_vulnerabilities(dep, min_sev) ==
    \E i \in 1..Len(dep.vulnerabilities) :
        counts_toward_high(dep.vulnerabilities[i].severity, min_sev)

upgrade_priority(dep, min_sev) ==
    IF has_vulnerabilities(dep, min_sev) THEN "high"
    ELSE IF dep.update_type = "patch" THEN "medium"
    ELSE "low"

\* faulty variant: the sentinel is not excluded
needs_upgrade_keep_unknown(dep) ==
    dep.latest_version # dep.current_version

needs_upgrade(dep) ==
    dep.latest_version # Unknown /\ dep.latest_version # dep.current_version

candidate(dep, min_sev) ==
    [name |-> dep.name,
     current_version |-> dep.current_version,
     latest_version |-> dep.latest_version,
     update_type |-> dep.update_type,
     vulnerabilities |-> dep.vulnerabilities,
     priority |-> upgrade_priority(dep, min_sev)]

RECURSIVE filter_candidates(_, _)
filter_candidates(deps, min_sev) ==
    IF deps = <<>> THEN <<>>
    ELSE LET rest == filter_candidates(SubSeq(deps, 1, Len(deps) - 1), min_sev)
             dep == deps[Len(deps)]
         IN  IF needs_upgrade(dep) THEN Append(rest, candidate(dep, min_sev))
             ELSE rest

priority_rank(priority) ==
    CASE priority = "high" -> 0
      [] priority = "medium" -> 1
      [] priority = "low" -> 2

\* faulty variant: x goes before the entries of its own rank
insert_by_rank_before_equal(sorted, x) ==
    LET before == SelectSeq(sorted,
                    LAMBDA c : priority_rank(c.priority) < priority_rank(x.priority))
        after == SelectSeq(sorted,
                    LAMBDA c : priority_rank(c.priority) >= priority_rank(x.priority))
    IN  before \o <<x>> \o after

\* x goes after every entry whose rank is not larger (list.sort is stable)
insert_by_rank(sorted, x) ==
    LET before == SelectSeq(sorted,
                    LAMBDA c : priority_rank(c.priority) <= priority_rank(x.priority))
        after == SelectSeq(sorted,
                    LAMBDA c : priority_rank(c.priority) > priority_rank(x.priority))
    IN  before \o <<x>> \o after

RECURSIVE sort_by_priority(_)
sort_by_priority(cands) ==
    IF cands = <<>> THEN <<>>
    ELSE insert_by_rank(sort_by_priority(SubSeq(cands, 1, Len(cands) - 1)),
                        cands[Len(cands)])

----------------------------------------------------------------------------
(* Manifests and registry answers *)

PackageNames == <<"left-pad", "lodash", "express", "react", "chalk">>

\* the entries a _scan_* method reads from a manifest with n declarations,
\* production entries first, then development entries (npm only)
Manifests(ptype, n, versions, kinds) ==
    {m \in [1..n -> [name : {PackageNames[i] : i \in 1..n},
                     current_version : versions,
                     type : IF ptype = "npm" THEN kinds ELSE {"production"}]] :
        /\ \A i \in 1..n : m[i].name = PackageNames[i]
        /\ \A i \in 1..n, j \in 1..n :
              (i < j /\ m[i].type = "development") => m[j].type = "development"}

Declared(entry) ==
    [name |-> entry.name,
     current_version |-> entry.current_version,
     type |-> entry.type,
     latest_version |-> <<>>,
     update_type |-> "",
     vulnerabilities |-> <<>>]

----------------------------------------------------------------------------
(* Operations *)

\* a stand-alone call of detect_project_type
DetectProjectType ==
    /\ pc = "start"
    /\ project_type' = detect_project_type(files)
    /\ pc' = "detected"
    /\ UNCHANGED <<files, temp_dir_exists, dependencies, scan_index,
                   min_severity, upgrade_candidates, raised, audit>>
    /\ UNCHANGED laterVars
    /\ UNCHANGED analyzerVars

\* a stand-alone call of _check_vulnerabilities
CheckVulnerabilities ==
    /\ pc = "start"
    /\ \E env \in AuditEnvs :
          LET r == check_vulnerabilities(files, temp_dir_exists, env)
          IN  /\ audit' = [env |-> env, result |-> r.result,
                           makedirs_called |-> r.makedirs_called,
                           run_called |-> r.run_called]
              /\ temp_dir_exists' = r.dir
              /\ raised' = r.raised
              /\ pc' = IF r.raised = "" THEN "checked" ELSE "raised"
    /\ UNCHANGED <<files, project_type, dependencies, scan_index,
                   min_severity, upgrade_candidates>>
    /\ UNCHANGED laterVars
    /\ UNCHANGED analyzerVars

\* scan_dependencies up to the enrichment loop: detect the type, read the
\* manifest
ScanDependencies(maxDeps, versions, kinds) ==
    /\ pc = "start"
    /\ project_type' = detect_project_type(files)
    /\ IF project_type' = "unknown"
       THEN /\ raised' = "ValueError"
            /\ pc' = "raised"
            /\ UNCHANGED <<dependencies, scan_index>>
       ELSE IF project_type' = "pip" /\ "requirements.txt" \notin files
       THEN /\ dependencies' = <<>>
            /\ scan_index' = 0
            /\ pc' = "scanned"
            /\ UNCHANGED raised
       ELSE \E n \in 0..maxDeps :
              \E m \in Manifests(project_type', n, versions, kinds) :
                 /\ dependencies' = [i \in 1..n |-> Declared(m[i])]
                 /\ scan_index' = 0
                 /\ pc' = IF n = 0 THEN "scanned" ELSE "enrich"
                 /\ UNCHANGED raised
    /\ UNCHANGED <<files, temp_dir_exists, min_severity, upgrade_candidates,
                   audit>>
    /\ UNCHANGED laterVars
    /\ UNCHANGED analyzerVars

\* one iteration of "for dep in dependencies": latest version, update type,
\* vulnerabilities
EnrichDependency(latests, envs) ==
    /\ pc = "enrich"
    /\ LET i == scan_index + 1
           dep == dependencies[i]
       IN  \E latest_version \in latests, env \in envs :
             LET r == check_vulnerabilities(files, temp_dir_exists, env)
             IN  /\ dependencies' =
                       [dependencies EXCEPT ![i] =
                          [dep EXCEPT
                             !.latest_version = latest_version,
                             !.update_type =
                                 update_type(project_type, dep.current_version,
                                             latest_version),
                             !.vulnerabilities = r.result]]
                 /\ temp_dir_exists' = r.dir
                 /\ raised' = r.raised
                 /\ scan_index' = i
                 /\ pc' = IF r.raised # "" THEN "raised"
                          ELSE IF i = Len(dependencies) THEN "scanned"
                          ELSE "enrich"
    /\ UNCHANGED <<files, project_type, min_severity, upgrade_candidates, audit>>
    /\ UNCHANGED laterVars
    /\ UNCHANGED analyzerVars

\* get_upgrade_candidates after the scan: filter, priority, sort
RankCandidates ==
    /\ pc = "scanned"
    /\ upgrade_candidates' =
          sort_by_priority(filter_candidates(dependencies, min_severity))
    /\ pc' = "done"
    /\ UNCHANGED <<files, temp_dir_exists, project_type, dependencies,
                   scan_index, min_severity, raised, audit>>
    /\ UNCHANGED laterVars
    /\ UNCHANGED analyzerVars

----------------------------------------------------------------------------
(* Specifications *)

\* a call in which the directory steps succeed and the report, if one is
\* read, has one entry for the package
AuditOf(run, returncode, severity) ==
    [makedirs |-> "ok", write |-> "ok", run |-> run, rmtree |-> "ok",
     rmtree_retry |-> "ok", returncode |-> returncode,
     stdout |-> [kind |-> "entries",
                 entry |-> [name |-> "self", severity |-> severity,
                            title |-> "absent", fixAvailable |-> "absent"]]]

NoAudit ==
    [env |-> AuditOf("ok", 0, "low"),
     result |-> <<>>, makedirs_called |-> FALSE, run_called |-> FALSE]

\* no resolver has been called
NoCall == [registry |-> "", package_name |-> "", result |-> <<>>]

\* run has not returned
NoResult == [success |-> FALSE, message |-> ""]

\* audits of the ranking pipeline: npm is not installed, the audit finds
\* nothing, or it reports one entry of severity low or high
PipelineAudits ==
    {AuditOf("FileNotFoundError", 1, "low"), AuditOf("ok", 0, "low"),
     AuditOf("ok", 1, "low"), AuditOf("ok", 1, "high")}

InitCommon ==
    /\ temp_dir_exists = FALSE
    /\ pc = "start"
    /\ project_type = ""
    /\ dependencies = <<>>
    /\ scan_index = 0
    /\ upgrade_candidates = <<>>
    /\ raised = ""
    /\ audit = NoAudit
    /\ resolved = NoCall
    /\ written = <<>>
    /\ target_dependency = <<>>
    /\ steps = <<>>
    /\ run_result = NoResult
    /\ exit_status = -1
    /\ usages = <<>>
    /\ package_name_candidates = <<>>
    /\ opened = <<>>
    /\ examples = <<>>
    /\ report = <<>>
    /\ affected_files = <<>>
    /\ test_results = <<>>

\* the operation does not look for a test framework
NoTests == test_framework = ""

\* no repository tree, no snippet limit and no registry listing are given
NoTree ==
    /\ repo_path = <<>>
    /\ tree = <<>>
    /\ max_examples = 0
    /\ registry_versions = <<>>

\* no manifest text, no run argument and no source text are given
NoInputs ==
    /\ NoTree
    /\ manifest = <<>>
    /\ dependency_name = ""
    /\ source = <<>>

\* versions of the ranking pipeline
PipelineCurrent == {Dotted(<<1, 0, 0>>), Star}

PipelineLatest ==
    {Dotted(<<1, 0, 0>>), Dotted(<<1, 0, 1>>), Dotted(<<1, 1, 0>>),
     Dotted(<<2, 0, 0>>), Unknown}

\* get_upgrade_candidates(min_severity) on a repository with at most one
\* marker file
Init ==
    /\ InitCommon
    /\ NoTests
    /\ NoInputs
    /\ files \in {fs \in SUBSET MarkerFiles : Cardinality(fs) <= 1}
    /\ min_severity \in MinSeverities

Next ==
    \/ ScanDependencies(MaxDeps, PipelineCurrent, {"production"})
    \/ EnrichDependency(PipelineLatest, PipelineAudits)
    \/ RankCandidates

Spec == Init /\ [][Next]_vars

\* detect_project_type on every combination of marker files
InitDetect ==
    /\ InitCommon
    /\ NoTests
    /\ NoInputs
    /\ files \in SUBSET MarkerFiles
    /\ min_severity = "medium"

NextDetect == DetectProjectType

SpecDetect == InitDetect /\ [][NextDetect]_vars

\* the scan of a manifest with one declaration, every version pair
CleanAudits == {AuditOf("ok", 0, "low")}

InitClassify ==
    /\ InitCommon
    /\ NoTests
    /\ NoInputs
    /\ files \in {fs \in SUBSET MarkerFiles : Cardinality(fs) = 1}
    /\ min_severity = "medium"

NextClassify ==
    \/ ScanDependencies(1, AllVersions, {"production", "development"})
    \/ EnrichDependency(AllVersions \cup {Unknown}, CleanAudits)

SpecClassify == InitClassify /\ [][NextClassify]_vars

\* one call of _check_vulnerabilities, every outcome of every step
InitVuln ==
    /\ InitCommon
    /\ NoTests
    /\ NoInputs
    /\ files \in SUBSET MarkerFiles
    /\ min_severity = "medium"

NextVuln == CheckVulnerabilities

SpecVuln == InitVuln /\ [][NextVuln]_vars

----------------------------------------------------------------------------
(* Latest-version resolvers (_get_npm_latest_version,                      *)
(* _get_pypi_latest_version, _get_maven_latest_version)                    *)

\* the parts of s between the occurrences of the token sep (str.split(sep))
RECURSIVE split(_, _)
split(s, sep) ==
    IF \A i \in 1..Len(s) : s[i] # sep THEN <<s>>
    ELSE LET i == CHOOSE k \in 1..Len(s) :
                     s[k] = sep /\ \A j \in 1..(k - 1) : s[j] # sep
         IN  <<SubSeq(s, 1, i - 1)>> \o split(SubSeq(s, i + 1, Len(s)), sep)

\* the JSON value null, as python reads it
None == <<"None">>

Registries == {"npm", "pypi", "maven"}

\* package names handed to a resolver, ":" being a token of its own
ResolverNames ==
    {<<"lodash">>, <<"org.apache", ":", "commons-io">>,
     <<"org.apache", ":", "commons-io", ":", "jar">>}

\* bodies of a registry answer.  field is the top-level member the resolver
\* reads ("dist-tags", "info", "response"), version the member it returns
\* ("latest", "version", "latestVersion"); numFound and docs matter to
\* Maven Central only
ResponseBodies ==
    [kind : {"malformed", "not_object", "no_field", "field_not_object",
             "no_version"},
     numFound : {0}, docs : {"absent"}, version : {Unknown}]
    \cup [kind : {"version"}, numFound : {0, 1},
          docs : {"absent", "empty", "no_version", "version"},
          version : {Dotted(<<1, 0, 0>>), None}]

\* outcomes of requests.get(url)
Responses ==
    [get : {"ok", "ConnectionError"}, status_code : {200, 404, 500},
     body : ResponseBodies]

Returns(value) == [raised |-> "", value |-> value]

Raises(exception) == [raised |-> exception, value |-> <<>>]

except_exception_reraise(outcome) == outcome

\* "except Exception as e: ... return "unknown""
except_exception(outcome) ==
    IF outcome.raised # "" THEN Returns(Unknown) ELSE outcome

\* data.get(field, {}).get(version, "unknown") of the npm and PyPI resolvers
get_get(body) ==
    IF body.kind = "malformed" THEN Raises("JSONDecodeError")
    ELSE IF body.kind = "not_object" THEN Raises("AttributeError")
    ELSE IF body.kind = "no_field" THEN Returns(Unknown)
    ELSE IF body.kind = "field_not_object" THEN Raises("AttributeError")
    ELSE IF body.kind = "no_version" THEN Returns(Unknown)
    ELSE Returns(body.version)

get_npm_latest_version(package_name, response) ==
    except_exception(
        IF response.get # "ok" THEN Raises(response.get)
        ELSE IF response.status_code = 200 THEN get_get(response.body)
        ELSE Returns(Unknown))

get_pypi_latest_version(package_name, response) ==
    except_exception(
        IF response.get # "ok" THEN Raises(response.get)
        ELSE IF response.status_code = 200 THEN get_get(response.body)
        ELSE Returns(Unknown))

\* data["response"]["numFound"] > 0, then
\* data["response"]["docs"][0]["latestVersion"]
maven_lookup(body) ==
    IF body.kind = "malformed" THEN Raises("JSONDecodeError")
    ELSE IF body.kind = "not_object" THEN Raises("TypeError")
    ELSE IF body.kind = "no_field" THEN Raises("KeyError")
    ELSE IF body.kind = "field_not_object" THEN Raises("TypeError")
    ELSE IF body.kind = "no_version" THEN Raises("KeyError")
    ELSE IF body.numFound > 0
    THEN IF body.docs = "absent" THEN Raises("KeyError")
         ELSE IF body.docs = "empty" THEN Raises("IndexError")
         ELSE IF body.docs = "no_version" THEN Raises("KeyError")
         ELSE Returns(body.version)
    ELSE Returns(Unknown)

get_maven_latest_version(package_name, response) ==
    except_exception(
        IF Len(split(package_name, ":")) # 2 THEN Raises("ValueError")
        ELSE IF response.get # "ok" THEN Raises(response.get)
        ELSE IF response.status_code = 200 THEN maven_lookup(response.body)
        ELSE Returns(Unknown))

\* a stand-alone call of one resolver
ResolveLatestVersion ==
    /\ pc = "start"
    /\ \E registry \in Registries, package_name \in ResolverNames,
          response \in Responses :
          LET r == IF registry = "npm"
                   THEN get_npm_latest_version(package_name, response)
                   ELSE IF registry = "pypi"
                   THEN get_pypi_latest_version(package_name, response)
                   ELSE get_maven_latest_version(package_name, response)
          IN  /\ resolved' = [registry |-> registry,
                              package_name |-> package_name,
                              response |-> response, result |-> r.value]
              /\ raised' = r.raised
              /\ pc' = IF r.raised = "" THEN "resolved" ELSE "raised"
    /\ UNCHANGED <<scannerVars, manifest, written, dependency_name,
                   target_dependency, steps, run_result, exit_status, source,
                   usages>>
    /\ UNCHANGED analyzerVars

\* one call of one resolver, every registry answer
InitResolve ==
    /\ InitCommon
    /\ NoTests
    /\ NoInputs
    /\ files = {}
    /\ min_severity = "medium"

NextResolve == ResolveLatestVersion

SpecResolve == InitResolve /\ [][NextResolve]_vars

----------------------------------------------------------------------------
(* Manifest text (package.json, requirements.txt)                          *)

\* a text is a sequence of tokens; "\n" ends a line and " " is a blank

\* s.replace(token, '')
replace_with_empty(s, token) == SelectSeq(s, LAMBDA t : t # token)

RECURSIVE lstrip(_)
lstrip(s) ==
    IF s # <<>> /\ Head(s) \in {" ", "\n"} THEN lstrip(Tail(s)) ELSE s

RECURSIVE rstrip(_)
rstrip(s) ==
    IF s # <<>> /\ s[Len(s)] \in {" ", "\n"}
    THEN rstrip(SubSeq(s, 1, Len(s) - 1))
    ELSE s

\* s.strip()
strip(s) == rstrip(lstrip(s))

\* s.startswith(prefix)
startswith(s, prefix) ==
    Len(s) >= Len(prefix) /\ SubSeq(s, 1, Len(prefix)) = prefix

\* the lines of a text, each with its line end (for line in f, readlines)
RECURSIVE readlines(_)
readlines(content) ==
    IF content = <<>> THEN <<>>
    ELSE IF \A i \in 1..Len(content) : content[i] # "\n" THEN <<content>>
    ELSE LET i == CHOOSE k \in 1..Len(content) :
                     content[k] = "\n" /\ \A j \in 1..(k - 1) : content[j] # "\n"
         IN  <<SubSeq(content, 1, i)>>
                 \o readlines(SubSeq(content, i + 1, Len(content)))

\* s.split(sep, 1) of a text in which sep occurs
split_once(s, sep) ==
    LET i == CHOOSE k \in 1..Len(s) :
                 s[k] = sep /\ \A j \in 1..(k - 1) : s[j] # sep
    IN  <<SubSeq(s, 1, i - 1), SubSeq(s, i + 1, Len(s))>>

\* the string a text spells
RECURSIVE join(_)
join(s) == IF s = <<>> THEN "" ELSE Head(s) \o join(Tail(s))

\* lines 74-94: the entries of "dependencies", then of "devDependencies"; a
\* section that is absent reads as the empty one
scan_npm_section(section, kind) ==
    [i \in 1..Len(section) |->
        Declared([name |-> section[i].name,
                  current_version |->
                      replace_with_empty(
                          replace_with_empty(section[i].version, "^"), "~"),
                  type |-> kind])]

scan_npm_manifest(package_data) ==
    scan_npm_section(package_data.dependencies, "production")
        \o scan_npm_section(package_data.devDependencies, "development")

\* lines 137-153, one line after another
RECURSIVE scan_pip_lines(_)
scan_pip_lines(lines) ==
    IF lines = <<>> THEN <<>>
    ELSE LET line == strip(Head(lines))
             rest == scan_pip_lines(Tail(lines))
         IN  IF line = <<>> \/ startswith(line, <<"#">>) THEN rest
             ELSE IF \E i \in 1..Len(line) : line[i] = "=="
             THEN LET parts == split_once(line, "==")
                  IN  <<Declared([name |-> join(strip(parts[1])),
                                  current_version |-> strip(parts[2]),
                                  type |-> "production"])>> \o rest
             ELSE rest

scan_pip_manifest(fs, content) ==
    IF "requirements.txt" \notin fs THEN <<>>
    ELSE scan_pip_lines(readlines(content))

\* version ranges declared in package.json
DeclaredRanges ==
    {Dotted(<<1, 0, 0>>), <<"^">> \o Dotted(<<1, 0, 0>>),
     <<"~">> \o Dotted(<<1, 0, 0>>),
     <<"^">> \o Dotted(<<1, 0, 0>>) \o <<" ", "||", " ", "^">>
         \o Dotted(<<2, 0, 0>>),
     Star}

\* the sections of n entries of a package.json, no name twice in a section
NpmSections(n) ==
    {s \in [1..n -> [name : {PackageNames[i] : i \in 1..MaxDeps},
                     version : DeclaredRanges]] :
        \A i \in 1..n, j \in 1..n : i # j => s[i].name # s[j].name}

\* the package.json files of at most MaxDeps entries
PackageJsons ==
    UNION {[dependencies : NpmSections(k), devDependencies : NpmSections(n - k)] :
              <<n, k>> \in {<<a, b>> \in (0..MaxDeps) \X (0..MaxDeps) : b <= a}}

\* lines of a requirements.txt, without their line end
RequirementLines ==
    {<<"flask", "==">> \o Dotted(<<1, 0, 0>>),
     <<"flask", "==">> \o Dotted(<<1, 0, 1>>),
     <<"requests", "==">> \o Dotted(<<1, 0, 0>>),
     <<" ", "requests", " ", "==", " ">> \o Dotted(<<1, 0, 1>>) \o <<" ">>,
     <<"#", " ", "pinned">>,
     <<>>,
     <<" ">>,
     <<"flask", ">=">> \o Dotted(<<1, 0>>),
     <<"flask", "[extra]", "==">> \o Dotted(<<1, 0>>),
     <<"flask", ">=", "1", ",", "==">> \o Dotted(<<1, 1>>)}

\* the text of the given lines, the last one with or without its line end
RECURSIVE TextOf(_, _)
TextOf(lines, final_newline) ==
    IF lines = <<>> THEN <<>>
    ELSE IF Len(lines) = 1
    THEN Head(lines) \o (IF final_newline THEN <<"\n">> ELSE <<>>)
    ELSE Head(lines) \o <<"\n">> \o TextOf(Tail(lines), final_newline)

\* the requirements.txt files of at most MaxLines lines
RequirementsTexts(final_newlines) ==
    UNION {{TextOf(lines, nl) : lines \in [1..n -> RequirementLines],
                                nl \in final_newlines} : n \in 0..MaxLines}

\* scan_dependencies up to the enrichment loop, the manifest read as text
ScanManifest ==
    /\ pc = "start"
    /\ project_type' = detect_project_type(files)
    /\ project_type' \in {"npm", "pip"}
    /\ dependencies' = IF project_type' = "npm"
                       THEN scan_npm_manifest(manifest)
                       ELSE scan_pip_manifest(files, manifest)
    /\ scan_index' = 0
    /\ pc' = IF dependencies' = <<>> THEN "scanned" ELSE "enrich"
    /\ UNCHANGED <<files, temp_dir_exists, min_severity, upgrade_candidates,
                   raised, audit>>
    /\ UNCHANGED laterVars
    /\ UNCHANGED analyzerVars

\* the scan of a package.json or of a requirements.txt
InitManifest ==
    /\ InitCommon
    /\ NoTests
    /\ NoTree
    /\ dependency_name = ""
    /\ source = <<>>
    /\ min_severity = "medium"
    /\ \/ files = {"package.json"} /\ manifest \in PackageJsons
       \/ files = {"requirements.txt"} /\ manifest \in RequirementsTexts({TRUE})
       \/ files = {"setup.py"} /\ manifest = <<>>

NextManifest ==
    \/ ScanManifest
    \/ EnrichDependency({Dotted(<<2, 0, 0>>)}, CleanAudits)

SpecManifest == InitManifest /\ [][NextManifest]_vars

----------------------------------------------------------------------------
(* PRCreator._update_pip_dependency                                        *)

\* f.writelines(lines): the lines one after another, nothing added
RECURSIVE writelines(_)
writelines(lines) ==
    IF lines = <<>> THEN <<>> ELSE Head(lines) \o writelines(Tail(lines))

\* f"{dependency_name}=={target_version}\n"
pin_line(name, target_version) ==
    <<name, "==">> \o target_version \o <<"\n">>

\* line.strip().startswith(f"{dependency_name}==")
pins(line, name) == startswith(strip(line), <<name, "==">>)

\* lines 114-125
update_pip_lines(lines, name, target_version) ==
    LET updated_lines ==
            [i \in 1..Len(lines) |->
                IF pins(lines[i], name) THEN pin_line(name, target_version)
                ELSE lines[i]]
        found == \E i \in 1..Len(lines) : pins(lines[i], name)
    IN  IF found THEN updated_lines
        ELSE updated_lines \o <<pin_line(name, target_version)>>

\* the value returned and the content of requirements.txt after the call;
\* io is the outcome of opening the file
update_pip_dependency(fs, content, name, target_version, io) ==
    IF "requirements.txt" \notin fs
    THEN [returned |-> FALSE, content |-> content]
    ELSE IF io # "ok"
    THEN [returned |-> FALSE, content |-> content]
    ELSE [returned |-> TRUE,
          content |->
              writelines(update_pip_lines(readlines(content), name,
                                          target_version))]

\* a stand-alone call of _update_pip_dependency
UpdatePipDependency ==
    /\ pc = "start"
    /\ \E target_version \in {Dotted(<<2, 0, 0>>)},
          io \in {"ok", "PermissionError"} :
          LET r == update_pip_dependency(files, manifest, dependency_name,
                                         target_version, io)
          IN  written' = [target_version |-> target_version,
                          returned |-> r.returned, content |-> r.content]
    /\ pc' = "updated"
    /\ UNCHANGED <<scannerVars, raised, resolved, manifest, dependency_name,
                   target_dependency, steps, run_result, exit_status, source,
                   usages>>
    /\ UNCHANGED analyzerVars

\* one update of a requirements.txt that ends with or without a line end
InitUpdate ==
    /\ InitCommon
    /\ NoTests
    /\ NoTree
    /\ min_severity = "medium"
    /\ source = <<>>
    /\ files \in {{"requirements.txt"}, {}}
    /\ manifest \in RequirementsTexts({TRUE, FALSE})
    /\ dependency_name \in {"flask", "requests", "numpy"}

NextUpdate == UpdatePipDependency

SpecUpdate == InitUpdate /\ [][NextUpdate]_vars

----------------------------------------------------------------------------
(* AutomatedUpgradeWorkflow.run and main                                   *)

Failure(message) == [success |-> FALSE, message |-> message]

Success == [success |-> TRUE, message |-> ""]

\* lines 50-73: no candidates, lookup by name, or the head of the list
select_dependency(candidates, name) ==
    IF candidates = <<>>
    THEN [found |-> FALSE, message |-> "No upgrade candidates found",
          index |-> 0]
    ELSE IF name # ""
    THEN IF \E i \in 1..Len(candidates) : candidates[i].name = name
         THEN [found |-> TRUE, message |-> "",
               index |-> CHOOSE i \in 1..Len(candidates) :
                            /\ candidates[i].name = name
                            /\ \A j \in 1..(i - 1) : candidates[j].name # name]
         ELSE [found |-> FALSE,
               message |-> "Dependency not found or doesn't need upgrade",
               index |-> 0]
    ELSE [found |-> TRUE, message |-> "", index |-> 1]

\* lines 50-75 of run, after get_upgrade_candidates has returned
SelectDependency ==
    /\ pc = "done"
    /\ LET s == select_dependency(upgrade_candidates, dependency_name)
       IN  IF s.found
           THEN /\ target_dependency' = <<upgrade_candidates[s.index]>>
                /\ pc' = "selected"
                /\ UNCHANGED run_result
           ELSE /\ run_result' = Failure(s.message)
                /\ pc' = "returned"
                /\ UNCHANGED target_dependency
    /\ UNCHANGED <<scannerVars, raised, resolved, manifest, written,
                   dependency_name, steps, exit_status, source, usages>>
    /\ UNCHANGED analyzerVars

\* faulty variant: run goes on after a step that reported a failure
StepIgnoringFailure(at, name, outcomes, message, next) ==
    /\ pc = at
    /\ \E outcome \in outcomes :
          /\ steps' = Append(steps, [name |-> name, outcome |-> outcome])
          /\ IF outcome \in {"ok", "falsy"}
             THEN pc' = next /\ UNCHANGED <<run_result, raised>>
             ELSE /\ pc' = "raised"
                  /\ raised' = outcome
                  /\ UNCHANGED run_result
    /\ UNCHANGED <<scannerVars, resolved, manifest, written, dependency_name,
                   target_dependency, exit_status, source, usages>>
    /\ UNCHANGED analyzerVars

\* one collaborator call of run: on "ok" run goes on, on "falsy" it returns
\* the failure dict with the message, any other outcome is an exception
\* that run does not catch; the call and its outcome are recorded in steps
Step(at, name, outcomes, message, next) ==
    /\ pc = at
    /\ \E outcome \in outcomes :
          /\ steps' = Append(steps, [name |-> name, outcome |-> outcome])
          /\ IF outcome = "ok"
             THEN pc' = next /\ UNCHANGED <<run_result, raised>>
             ELSE IF outcome = "falsy"
             THEN /\ pc' = "returned"
                  /\ run_result' = Failure(message)
                  /\ UNCHANGED raised
             ELSE /\ pc' = "raised"
                  /\ raised' = outcome
                  /\ UNCHANGED run_result
    /\ UNCHANGED <<scannerVars, resolved, manifest, written, dependency_name,
                   target_dependency, exit_status, source, usages>>
    /\ UNCHANGED analyzerVars

\* lines 79-85: the open of a source file is outside any try
AnalyzeImpact ==
    Step("selected", "analyze_impact", {"ok", "PermissionError"}, "",
         "analyzed")

\* lines 89-98: agent.send_message catches nothing
AnalyzeUpgradeStrategy ==
    Step("analyzed", "analyze_upgrade_strategy", {"ok", "APIError"}, "",
         "planned")

\* lines 104-109
PredictCodeChanges ==
    Step("planned", "predict_code_changes", {"ok", "APIError"}, "",
         "predicted")

\* lines 115-124
CreateBranch ==
    Step("predicted", "create_branch", {"ok", "falsy"},
         "Failed to create branch", "branched")

\* lines 130-140
UpdateDependency ==
    Step("branched", "update_dependency", {"ok", "falsy"},
         "Failed to update dependency", "updated")

\* lines 146-160: the AI test cases, then test_generator.generate_test_cases
GenerateTestCases ==
    Step("updated", "generate_test_cases", {"ok", "APIError"}, "",
         "tests_generated")

\* lines 164-174
CommitChanges ==
    Step("tests_generated", "commit_changes", {"ok", "falsy"},
         "Failed to commit changes", "committed")

\* the exceptions detect_test_framework raises: its open and read calls
\* are outside any try
FrameworkErrors == {"UnicodeDecodeError"}

\* the dict run_tests returns: the report of the framework's runner, or the
\* dict of the except clause when the runner raised
run_tests(framework, outcome) ==
    [success |-> outcome = "passed",
     framework |-> framework,
     error |-> IF outcome = "error" THEN "Exception" ELSE ""]

\* faulty variant: run returns when the tests did not pass
after_tests_gated(outcome) ==
    IF outcome = "passed" THEN "tested" ELSE "returned"

\* lines 180-184 of run: test_results is not looked at
after_tests(outcome) == "tested"

\* line 180: the tests pass, fail, or the runner raises and run_tests
\* catches it
RunTests ==
    /\ pc = "committed"
    /\ IF test_framework \in FrameworkErrors
       THEN /\ steps' = Append(steps, [name |-> "run_tests",
                                       outcome |-> test_framework])
            /\ pc' = "raised"
            /\ raised' = test_framework
            /\ UNCHANGED test_results
       ELSE \E outcome \in {"passed", "failed", "error"} :
               /\ test_results' = run_tests(test_framework, outcome)
               /\ steps' = Append(steps, [name |-> "run_tests",
                                          outcome |-> "ok"])
               /\ pc' = after_tests(outcome)
               /\ UNCHANGED raised
    /\ UNCHANGED <<scannerVars, resolved, manifest, written, dependency_name,
                   target_dependency, run_result, exit_status, source, usages>>
    /\ UNCHANGED <<package_name_candidates, repo_path, tree, max_examples,
                   opened, examples, registry_versions, report,
                   affected_files, test_framework>>

\* lines 184-190
PushBranch ==
    Step("tested", "push_branch", {"ok", "falsy"}, "Failed to push branch",
         "pushed")

\* lines 196-200: test_results is handed to the agent
CreatePrDescription ==
    /\ pc = "pushed"
    /\ \E outcome \in {"ok", "APIError"} :
          /\ steps' = Append(steps, [name |-> "create_pr_description",
                                     outcome |-> outcome,
                                     test_results |-> test_results])
          /\ IF outcome = "ok"
             THEN pc' = "described" /\ UNCHANGED raised
             ELSE pc' = "raised" /\ raised' = outcome
    /\ UNCHANGED <<scannerVars, resolved, manifest, written, dependency_name,
                   target_dependency, run_result, exit_status, source, usages>>
    /\ UNCHANGED analyzerVars

\* lines 206-228
CreatePullRequest ==
    /\ pc = "described"
    /\ \E success \in BOOLEAN :
          /\ steps' = Append(steps,
                             [name |-> "create_pull_request",
                              outcome |-> IF success THEN "ok" ELSE "falsy"])
          /\ run_result' = IF success THEN Success
                           ELSE Failure("Failed to create PR")
    /\ pc' = "returned"
    /\ UNCHANGED <<scannerVars, raised, resolved, manifest, written,
                   dependency_name, target_dependency, exit_status, source,
                   usages>>
    /\ UNCHANGED analyzerVars

\* main after workflow.run: it prints the outcome and returns, so the
\* status is 0; an exception that left run ends the process with status 1
Main ==
    /\ pc \in {"returned", "raised"}
    /\ exit_status' = IF pc = "raised" THEN 1 ELSE 0
    /\ pc' = "exited"
    /\ UNCHANGED <<scannerVars, raised, resolved, manifest, written,
                   dependency_name, target_dependency, steps, run_result,
                   source, usages>>
    /\ UNCHANGED analyzerVars

\* versions and audits of a run
RunLatest == {Dotted(<<1, 0, 0>>), Dotted(<<1, 0, 1>>), Dotted(<<2, 0, 0>>)}

RunAudits == {AuditOf("ok", 0, "low"), AuditOf("ok", 1, "high")}

\* python main.py --repo R [--dependency NAME] [--min-severity S]
InitRun ==
    /\ InitCommon
    /\ NoTree
    /\ test_framework \in {"jest", "generic"} \cup FrameworkErrors
    /\ manifest = <<>>
    /\ source = <<>>
    /\ files \in {{}, {"package.json"}, {"requirements.txt"}}
    /\ min_severity \in MinSeverities
    /\ dependency_name \in {"", "left-pad", "chalk"}

NextRun ==
    \/ ScanDependencies(MaxDeps, {Dotted(<<1, 0, 0>>)}, {"production"})
    \/ EnrichDependency(RunLatest, RunAudits)
    \/ RankCandidates
    \/ SelectDependency
    \/ AnalyzeImpact
    \/ AnalyzeUpgradeStrategy
    \/ PredictCodeChanges
    \/ CreateBranch
    \/ UpdateDependency
    \/ GenerateTestCases
    \/ CommitChanges
    \/ RunTests
    \/ PushBranch
    \/ CreatePrDescription
    \/ CreatePullRequest
    \/ Main

SpecRun == InitRun /\ [][NextRun]_vars

----------------------------------------------------------------------------
(* CodeImpactAnalyzer._find_js_dependency_usage and                        *)
(* _find_java_dependency_usage, for the dependencies lodash and gson       *)

\* tokens the group ({dependency_name}|{dependency_name}/[^'"]+) matches
\* in, and the text of the group
ImportPaths ==
    [t \in {"require('lodash')", "from 'lodash'", "from 'lodash/fp'"} |->
        IF t = "from 'lodash/fp'" THEN "lodash/fp" ELSE "lodash"]

RequireTokens == {"require('lodash')"}

FromTokens == {"from 'lodash'", "from 'lodash/fp'"}

\* tokens of an import statement that contain a package name candidate
CandidateTokens == {"com.google.gson.Gson"}

\* the positions of a set in increasing order (re.finditer goes left to
\* right)
RECURSIVE in_order(_)
in_order(positions) ==
    IF positions = {} THEN <<>>
    ELSE LET p == CHOOSE x \in positions : \A y \in positions : x <= y
         IN  <<p>> \o in_order(positions \ {p})

same_line(content, i, j) == \A k \in i..j : content[k] # "\n"

\* "import .+ from ['"]...['"]" can start at i: "import", a blank, at least
\* one character, a blank and a from clause, all on one line
import_from_at(content, i) ==
    /\ content[i] = "import"
    /\ i + 1 <= Len(content) /\ content[i + 1] = " "
    /\ \E j \in (i + 4)..Len(content) :
          /\ content[j] \in FromTokens
          /\ content[j - 1] = " "
          /\ same_line(content, i, j)

\* the from clause the greedy .+ stops at: the last one of the line
last_from(content, i) ==
    CHOOSE j \in (i + 4)..Len(content) :
        /\ content[j] \in FromTokens /\ content[j - 1] = " "
        /\ same_line(content, i, j)
        /\ \A k \in (j + 1)..Len(content) :
              (content[k] \in FromTokens /\ content[k - 1] = " ")
                  => ~same_line(content, i, k)

\* the matches of the three usage_patterns, pattern after pattern, each as
\* the offset of its start and the text of its group
js_matches(content) ==
    LET all == 1..Len(content)
        requires == in_order({i \in all : content[i] \in RequireTokens})
        froms == in_order({i \in all : content[i] \in FromTokens})
        imports ==
            in_order({i \in all :
                         /\ import_from_at(content, i)
                         /\ \A h \in 1..(i - 1) :
                               import_from_at(content, h)
                                   => ~same_line(content, h, i)})
    IN  [k \in 1..Len(requires) |->
            [start |-> requires[k], group |-> ImportPaths[content[requires[k]]]]]
        \o [k \in 1..Len(froms) |->
               [start |-> froms[k], group |-> ImportPaths[content[froms[k]]]]]
        \o [k \in 1..Len(imports) |->
               [start |-> imports[k],
                group |-> ImportPaths[content[last_from(content, imports[k])]]]]

\* "import\s+([^;]+);" can start at i: "import", white space, at least one
\* more character before the next ";"
import_stmt_at(content, i) ==
    /\ content[i] = "import"
    /\ i + 1 <= Len(content) /\ content[i + 1] \in {" ", "\n"}
    /\ \E j \in (i + 3)..Len(content) :
          content[j] = ";" /\ \A k \in i..(j - 1) : content[k] # ";"

\* the matches of import_pattern from offset `from` on; a match ends at the
\* first ";" after its start, on whatever line that is
RECURSIVE java_matches(_, _)
java_matches(content, from) ==
    IF \A i \in from..Len(content) : ~import_stmt_at(content, i) THEN <<>>
    ELSE LET i == CHOOSE x \in from..Len(content) :
                     /\ import_stmt_at(content, x)
                     /\ \A y \in from..(x - 1) : ~import_stmt_at(content, y)
             j == CHOOSE x \in (i + 3)..Len(content) :
                     content[x] = ";" /\ \A k \in i..(x - 1) : content[k] # ";"
         IN  <<[start |-> i, group |-> strip(SubSeq(content, i + 1, j - 1))]>>
                 \o java_matches(content, j + 1)

line_num_of_last_line(content, start) ==
    Cardinality({k \in 1..Len(content) : content[k] = "\n"}) + 1

\* content[:match.start()].count('\n') + 1
line_num(content, start) ==
    Cardinality({k \in 1..(start - 1) : content[k] = "\n"}) + 1

\* lines[line_num - 1] if line_num <= len(lines) else "", stripped
context_of(content, n) ==
    LET lines == split(content, "\n")
    IN  strip(IF n <= Len(lines) THEN lines[n] ELSE <<>>)

\* lines 93-107
find_js_dependency_usage(content) ==
    LET ms == js_matches(content)
    IN  [k \in 1..Len(ms) |->
            [line |-> line_num(content, ms[k].start),
             context |-> context_of(content, line_num(content, ms[k].start)),
             import_path |-> <<ms[k].group>>]]

\* lines 243-264: the matches whose statement contains a candidate
find_java_dependency_usage(content) ==
    LET ms == SelectSeq(java_matches(content, 1),
                        LAMBDA m : \E k \in 1..Len(m.group) :
                                       m.group[k] \in CandidateTokens)
    IN  [k \in 1..Len(ms) |->
            [line |-> line_num(content, ms[k].start),
             context |-> context_of(content, line_num(content, ms[k].start)),
             import_path |-> ms[k].group]]

\* lines of a JavaScript file
JsLines ==
    {<<"import", " ", "_", " ", "from 'lodash'">>,
     <<" ", "x", "=", "require('lodash')", ";">>,
     <<"import", " ", "{">>,
     <<"}", " ", "from 'lodash/fp'", " ">>,
     <<"foo()", ";">>,
     <<>>}

\* lines of a Java or Kotlin file
JavaLines ==
    {<<"import", " ", "com.google.gson.Gson", ";">>,
     <<" ", "import", " ", "java.util.List", ";">>,
     <<"import", " ", "com.google.gson.Gson">>,
     <<"foo()", ";">>,
     <<>>}

\* the source files of at most MaxLines lines
SourceTexts(lines) ==
    UNION {{TextOf(ls, nl) : ls \in [1..n -> lines], nl \in BOOLEAN} :
              n \in 0..MaxLines}

\* find_dependency_usage on a repository with one source file; io is the
\* outcome of opening and reading it
FindDependencyUsage ==
    /\ pc = "start"
    /\ project_type' = detect_project_type(files)
    /\ project_type' \in {"npm", "maven", "gradle"}
    /\ \E io \in {"ok", "read_error", "PermissionError"} :
          IF io = "PermissionError"
          THEN /\ raised' = io
               /\ pc' = "raised"
               /\ UNCHANGED usages
          ELSE /\ usages' = IF io = "read_error" THEN <<>>
                            ELSE IF project_type' = "npm"
                            THEN find_js_dependency_usage(source)
                            ELSE find_java_dependency_usage(source)
               /\ pc' = "found"
               /\ UNCHANGED raised
    /\ UNCHANGED <<files, temp_dir_exists, dependencies, scan_index,
                   min_severity, upgrade_candidates, audit, resolved, manifest,
                   written, dependency_name, target_dependency, steps,
                   run_result, exit_status, source>>
    /\ UNCHANGED analyzerVars

\* one search of one source file
InitUsage ==
    /\ InitCommon
    /\ NoTests
    /\ NoTree
    /\ manifest = <<>>
    /\ min_severity = "medium"
    /\ \/ /\ files = {"package.json"}
          /\ dependency_name = "lodash"
          /\ source \in SourceTexts(JsLines)
       \/ /\ files \in {{"pom.xml"}, {"build.gradle.kts"}}
          /\ dependency_name = "com.google.code.gson:gson"
          /\ source \in SourceTexts(JavaLines)

NextUsage == FindDependencyUsage

SpecUsage == InitUsage /\ [][NextUsage]_vars

----------------------------------------------------------------------------
(* Package name candidates of _find_java_dependency_usage                  *)

\* a dependency name is here a sequence of characters

LowerCase == <<"a", "b", "e", "g", "i", "n", "o", "p", "r", "s", "t">>

UpperCase == <<"A", "B", "E", "G", "I", "N", "O", "P", "R", "S", "T">>

\* c.upper() and c.lower() of one character
upper(c) ==
    IF \E i \in 1..Len(LowerCase) : LowerCase[i] = c
    THEN UpperCase[CHOOSE i \in 1..Len(LowerCase) : LowerCase[i] = c]
    ELSE c

lower(c) ==
    IF \E i \in 1..Len(UpperCase) : UpperCase[i] = c
    THEN LowerCase[CHOOSE i \in 1..Len(UpperCase) : UpperCase[i] = c]
    ELSE c

capitalize_nothing(p) == p

\* p.capitalize(): the first character upper case, the others lower case
capitalize(p) ==
    IF p = <<>> THEN <<>>
    ELSE <<upper(p[1])>> \o [i \in 1..(Len(p) - 1) |-> lower(p[i + 1])]

\* lines 202-205: the unpacking of split(":") fails unless there are
\* exactly two parts
artifact_id_of(name) ==
    LET parts == split(name, ":")
    IN  IF Len(parts) = 2 THEN parts[2] ELSE name

\* lines 209-225
java_package_name_candidates(name) ==
    LET artifact_id == artifact_id_of(name)
        parts == split(artifact_id, "-")
        capitalized == [i \in 1..Len(parts) |-> capitalize(parts[i])]
        camel_case == parts[1] \o writelines(Tail(capitalized))
        pascal_case == writelines(capitalized)
    IN  IF \E i \in 1..Len(artifact_id) : artifact_id[i] = "-"
        THEN <<artifact_id, camel_case, pascal_case>>
        ELSE <<artifact_id>>

\* lines 201-225 of _find_java_dependency_usage
BuildPackageNameCandidates ==
    /\ pc = "start"
    /\ package_name_candidates' = java_package_name_candidates(dependency_name)
    /\ pc' = "candidates"
    /\ UNCHANGED <<scannerVars, raised, laterVars, repo_path, tree,
                   max_examples, opened, examples, registry_versions, report,
                   affected_files, test_framework, test_results>>

SpringBootStarter ==
    <<"s", "p", "r", "i", "n", "g", "-", "b", "o", "o", "t", "-",
      "s", "t", "a", "r", "t", "e", "r">>

\* the names of at most MaxName characters, and one of the Spring artifacts
JavaNames ==
    UNION {[1..n -> {"a", "B", "-", ":"}] : n \in 0..MaxName}
        \cup {<<"o", "r", "g", ":">> \o SpringBootStarter}

\* the candidates of every name
InitCandidates ==
    /\ InitCommon
    /\ NoTests
    /\ NoTree
    /\ manifest = <<>>
    /\ source = <<>>
    /\ files = {"pom.xml"}
    /\ min_severity = "medium"
    /\ dependency_name \in JavaNames

NextCandidates == BuildPackageNameCandidates

SpecCandidates == InitCandidates /\ [][NextCandidates]_vars

----------------------------------------------------------------------------
(* The walk of the source tree (os.walk loops of _find_js_dependency_usage *)
(* and _find_java_dependency_usage)                                        *)

\* a path is a sequence of characters, "/" between its components; a file
\* of the tree is [dir, name, content, io, reopen]: its directory below the
\* repository root, its name, its text, the outcome of opening and reading
\* it during the walk, and of opening it again later

\* needle in hay
contains(hay, needle) ==
    \E i \in 1..(Len(hay) - Len(needle) + 1) :
        SubSeq(hay, i, i + Len(needle) - 1) = needle

\* s.endswith(suffix)
endswith(s, suffix) ==
    /\ Len(s) >= Len(suffix)
    /\ SubSeq(s, Len(s) - Len(suffix) + 1, Len(s)) = suffix

DotGit == <<".", "g", "i", "t">>

NodeModules == <<"n", "o", "d", "e", "_", "m", "o", "d", "u", "l", "e", "s">>

Build == <<"b", "u", "i", "l", "d">>

Target == <<"t", "a", "r", "g", "e", "t">>

\* the names tested at lines 81 and 231
skip_names(ptype) ==
    IF ptype = "npm" THEN {NodeModules, DotGit} ELSE {Build, Target, DotGit}

\* the suffixes tested at lines 85 and 235
extensions(ptype) ==
    IF ptype = "npm"
    THEN {<<".", "j", "s">>, <<".", "j", "s", "x">>, <<".", "t", "s">>,
          <<".", "t", "s", "x">>}
    ELSE {<<".", "j", "a", "v", "a">>, <<".", "k", "t">>,
          <<".", "s", "c", "a", "l", "a">>}

\* the root os.walk yields for the directory of a file
root_of(repo, file) ==
    IF file.dir = <<>> THEN repo ELSE repo \o <<"/">> \o file.dir

\* os.path.relpath(file_path, self.repo_path)
relative_path(file) ==
    IF file.dir = <<>> THEN file.name ELSE file.dir \o <<"/">> \o file.name

\* "node_modules" in root or ".git" in root, and the like
skipped(ptype, repo, file) ==
    \E name \in skip_names(ptype) : contains(root_of(repo, file), name)

\* the file is opened by the walk
visited(ptype, repo, file) ==
    /\ ~skipped(ptype, repo, file)
    /\ \E suffix \in extensions(ptype) : endswith(file.name, suffix)

\* the hits of one file that was read
hits_of(ptype, file) ==
    LET found == IF ptype = "npm" THEN find_js_dependency_usage(file.content)
                 ELSE find_java_dependency_usage(file.content)
    IN  [k \in 1..Len(found) |->
            [file |-> relative_path(file), line |-> found[k].line,
             context |-> found[k].context,
             import_path |-> found[k].import_path]]

\* the loop over the files of the tree: open is outside the try, the read
\* and the search are inside it
RECURSIVE walk_usage(_, _, _)
walk_usage(ptype, repo, files_found) ==
    IF files_found = <<>> THEN Returns(<<>>)
    ELSE LET file == Head(files_found)
             rest == walk_usage(ptype, repo, Tail(files_found))
         IN  IF ~visited(ptype, repo, file) THEN rest
             ELSE IF file.io = "PermissionError" THEN Raises(file.io)
             ELSE IF rest.raised # "" THEN rest
             ELSE IF file.io = "read_error" THEN rest
             ELSE Returns(hits_of(ptype, file) \o rest.value)

\* find_dependency_usage on a repository tree
WalkDependencyUsage ==
    /\ pc = "start"
    /\ project_type' = detect_project_type(files)
    /\ project_type' \in {"npm", "maven", "gradle"}
    /\ LET r == walk_usage(project_type', repo_path, tree)
       IN  /\ usages' = r.value
           /\ raised' = r.raised
           /\ pc' = IF r.raised = "" THEN "found" ELSE "raised"
    /\ UNCHANGED <<files, temp_dir_exists, dependencies, scan_index,
                   min_severity, upgrade_candidates, audit, resolved, manifest,
                   written, dependency_name, target_dependency, steps,
                   run_result, exit_status, source>>
    /\ UNCHANGED analyzerVars

Repo == <<"/", "r", "e", "p", "o">>

\* a repository checked out as /x.github.io
GithubIoRepo == <<"/", "x">> \o DotGit \o <<"h", "u", "b", ".", "i", "o">>

Src == <<"s", "r", "c">>

\* directories of the tree, below the repository root
WalkDirs(ptype) ==
    IF ptype = "npm"
    THEN {<<>>, Src, DotGit \o <<"h", "u", "b">>, NodeModules}
    ELSE {<<>>, Src, <<"r", "e">> \o Build, Src \o <<"/">> \o Target}

WalkNames(ptype) ==
    IF ptype = "npm"
    THEN {<<"a", ".", "j", "s">>, <<"a", ".", "m", "d">>}
    ELSE {<<"A", ".", "k", "t">>, <<"a", ".", "m", "d">>}

\* a text with one import of the dependency
UsageText(ptype) ==
    IF ptype = "npm"
    THEN <<"import", " ", "_", " ", "from 'lodash'", "\n">>
    ELSE <<"import", " ", "com.google.gson.Gson", ";", "\n">>

\* the trees of at most MaxFiles files, no path twice
WalkTrees(ptype) ==
    UNION {{t \in [1..n -> [dir : WalkDirs(ptype), name : WalkNames(ptype),
                            content : {UsageText(ptype)},
                            io : {"ok", "read_error", "PermissionError"},
                            reopen : {"ok"}]] :
               \A i \in 1..n, j \in 1..n :
                   i # j => relative_path(t[i]) # relative_path(t[j])} :
              n \in 0..MaxFiles}

\* one walk of a repository tree
InitWalk ==
    /\ InitCommon
    /\ NoTests
    /\ manifest = <<>>
    /\ source = <<>>
    /\ min_severity = "medium"
    /\ max_examples = 0
    /\ registry_versions = <<>>
    /\ repo_path \in {Repo, GithubIoRepo}
    /\ \/ /\ files = {"package.json"}
          /\ dependency_name = "lodash"
          /\ tree \in WalkTrees("npm")
       \/ /\ files = {"pom.xml"}
          /\ dependency_name = "com.google.code.gson:gson"
          /\ tree \in WalkTrees("maven")

NextWalk == WalkDependencyUsage

SpecWalk == InitWalk /\ [][NextWalk]_vars

----------------------------------------------------------------------------
(* CodeImpactAnalyzer.extract_api_usage_examples and get_affected_files    *)

\* the default of the max_examples parameter
DefaultMaxExamples == 10

\* lines before the hit line the snippet starts at (line 308)
LinesBefore == 5

\* offset of the end of the slice from the hit line (line 309)
LinesAfter == 15

\* "\n".join(lines)
join_lines(lines) == TextOf(lines, FALSE)

\* os.path.join(self.repo_path, usage["file"])
path_join(repo, relative) == repo \o <<"/">> \o relative

\* the file of the tree open(file_path) finds
file_at(repo, files_found, file_path) ==
    CHOOSE i \in 1..Len(files_found) :
        path_join(repo, relative_path(files_found[i])) = file_path

\* lines 303-310: the lines start..end-1 (counted from 0) around the hit
snippet_of(content, line) ==
    LET lines == split(content, "\n")
        line_index == line - 1
        start == IF line_index - LinesBefore > 0
                 THEN line_index - LinesBefore ELSE 0
        end == IF line_index + LinesAfter < Len(lines)
               THEN line_index + LinesAfter ELSE Len(lines)
    IN  join_lines(SubSeq(lines, start + 1, end))

\* the token of a code fence, three grave accents
Fence == "fence"

\* the f-string of line 312: "File: ", the file, a new line, a fence, a
\* new line, the snippet, a new line, a fence
format_example(file, snippet) ==
    <<"File: ">> \o file \o <<"\n", Fence, "\n">> \o snippet
        \o <<"\n", Fence>>

never_processed(file_path, processed_files) == FALSE

\* file_path in processed_files
already_processed(file_path, processed_files) ==
    file_path \in processed_files

\* the loop of lines 290-317 from the usages `locations` on; done is the
\* record of the examples built and of the files opened so far
RECURSIVE extract_loop(_, _, _, _, _, _)
extract_loop(repo, files_found, locations, limit, processed_files, done) ==
    IF locations = <<>> THEN done
    ELSE LET usage == Head(locations)
             file_path == path_join(repo, usage.file)
             file == files_found[file_at(repo, files_found, file_path)]
             attempted == [done EXCEPT !.opened = Append(@, file_path)]
             appended ==
                 [attempted EXCEPT
                     !.examples =
                         Append(@, format_example(
                                       usage.file,
                                       snippet_of(file.content, usage.line)))]
         IN  IF already_processed(file_path, processed_files)
             THEN extract_loop(repo, files_found, Tail(locations), limit,
                               processed_files, done)
             ELSE IF file.reopen # "ok"
             THEN extract_loop(repo, files_found, Tail(locations), limit,
                               processed_files \cup {file_path}, attempted)
             ELSE IF Len(appended.examples) >= limit THEN appended
             ELSE extract_loop(repo, files_found, Tail(locations), limit,
                               processed_files \cup {file_path}, appended)

\* extract_api_usage_examples(dependency_name, max_examples)
ExtractApiUsageExamples ==
    /\ pc = "start"
    /\ project_type' = detect_project_type(files)
    /\ project_type' \in {"npm", "maven", "gradle"}
    /\ \E r \in {walk_usage(project_type', repo_path, tree)} :
          IF r.raised # ""
          THEN /\ raised' = r.raised
               /\ pc' = "raised"
               /\ UNCHANGED <<usages, examples, opened>>
          ELSE \E done \in {extract_loop(repo_path, tree, r.value,
                                         max_examples, {},
                                         [examples |-> <<>>,
                                          opened |-> <<>>])} :
                  /\ usages' = r.value
                  /\ examples' = done.examples
                  /\ opened' = done.opened
                  /\ pc' = "extracted"
                  /\ UNCHANGED raised
    /\ UNCHANGED <<files, temp_dir_exists, dependencies, scan_index,
                   min_severity, upgrade_candidates, audit, resolved, manifest,
                   written, dependency_name, target_dependency, steps,
                   run_result, exit_status, source>>
    /\ UNCHANGED <<package_name_candidates, repo_path, tree, max_examples,
                   registry_versions, report, affected_files, test_framework,
                   test_results>>

\* the lists list(set(...)) can build: the members in any order, each once
orders_of(members) ==
    {order \in [1..Cardinality(members) -> members] :
        \A i, j \in 1..Cardinality(members) :
            i # j => order[i] # order[j]}

\* get_affected_files(dependency_name)
GetAffectedFiles ==
    /\ pc = "start"
    /\ project_type' = detect_project_type(files)
    /\ project_type' \in {"npm", "maven", "gradle"}
    /\ \E r \in {walk_usage(project_type', repo_path, tree)} :
          IF r.raised # ""
          THEN /\ raised' = r.raised
               /\ pc' = "raised"
               /\ UNCHANGED <<usages, affected_files>>
          ELSE /\ usages' = r.value
               /\ affected_files' \in
                      orders_of({r.value[k].file : k \in 1..Len(r.value)})
               /\ pc' = "affected"
               /\ UNCHANGED raised
    /\ UNCHANGED <<files, temp_dir_exists, dependencies, scan_index,
                   min_severity, upgrade_candidates, audit, resolved, manifest,
                   written, dependency_name, target_dependency, steps,
                   run_result, exit_status, source>>
    /\ UNCHANGED <<package_name_candidates, repo_path, tree, max_examples,
                   opened, examples, registry_versions, report,
                   test_framework, test_results>>

Lib == <<"l", "i", "b">>

\* a text with two imports of the dependency, on two lines
TwoUsagesText ==
    <<"import", " ", "_", " ", "from 'lodash'", "\n",
      " ", "x", "=", "require('lodash')", ";", "\n">>

\* a text that does not use the dependency
NoUsageText == <<"foo()", ";", "\n">>

\* the trees of at most MaxFiles JavaScript files the walk can read, no
\* path twice; a file that was read may fail to open the second time
ExtractTrees ==
    UNION {{t \in [1..n -> [dir : {<<>>, Src, Lib},
                            name : {<<"a", ".", "j", "s">>},
                            content : {TwoUsagesText, NoUsageText},
                            io : {"ok"},
                            reopen : {"ok", "error"}]] :
               \A i \in 1..n, j \in 1..n :
                   i # j => relative_path(t[i]) # relative_path(t[j])} :
              n \in 0..MaxFiles}

\* one call of extract_api_usage_examples or of get_affected_files
InitExtract ==
    /\ InitCommon
    /\ NoTests
    /\ manifest = <<>>
    /\ source = <<>>
    /\ min_severity = "medium"
    /\ registry_versions = <<>>
    /\ repo_path = Repo
    /\ files = {"package.json"}
    /\ dependency_name = "lodash"
    /\ tree \in ExtractTrees
    /\ max_examples \in 0..MaxExamples \cup {DefaultMaxExamples}

NextExtract == ExtractApiUsageExamples \/ GetAffectedFiles

SpecExtract == InitExtract /\ [][NextExtract]_vars

\* the text of `count` lines with one import of the dependency, on line
\* `hit`
text_with_hit(count, hit) ==
    TextOf([n \in 1..count |->
               IF n = hit THEN <<"import", " ", "_", " ", "from 'lodash'">>
               ELSE <<"line", " ", ToString(n)>>],
           TRUE)

\* the files of at most MaxFileLines lines with one hit
LongTexts ==
    {text_with_hit(count, hit) :
        count \in 1..MaxFileLines, hit \in 1..MaxFileLines}

\* one call of extract_api_usage_examples on a repository of one file
InitWindow ==
    /\ InitCommon
    /\ NoTests
    /\ manifest = <<>>
    /\ source = <<>>
    /\ min_severity = "medium"
    /\ registry_versions = <<>>
    /\ repo_path = Repo
    /\ files = {"package.json"}
    /\ dependency_name = "lodash"
    /\ max_examples = DefaultMaxExamples
    /\ \E content \in LongTexts :
          tree = <<[dir |-> Src, name |-> <<"a", ".", "j", "s">>,
                    content |-> content, io |-> "ok", reopen |-> "ok"]>>

NextWindow == ExtractApiUsageExamples

SpecWindow == InitWindow /\ [][NextWindow]_vars

----------------------------------------------------------------------------
(* CodeImpactAnalyzer.analyze_breaking_changes                             *)

\* Version.__lt__ on versions without a local part: the releases, missing
\* components read as 0, in lexicographic order
version_lt(a, b) ==
    \/ a.major < b.major
    \/ (a.major = b.major /\ a.minor < b.minor)
    \/ (a.major = b.major /\ a.minor = b.minor /\ a.patch < b.patch)

\* a <= b
version_le(a, b) == version_lt(a, b) \/ a = b

\* the test "... <= target_ver" of line 366
up_to_target(a, b) == version_le(a, b)

\* lines 360-369: version.parse raises on a string that is no version, in
\* the two arguments or in a listed version, and the except clause gives []
intermediate_versions_of(versions, current_version, target_version) ==
    LET current_ver == version_parse(current_version)
        target_ver == version_parse(target_version)
    IN  IF ~current_ver.ok \/ ~target_ver.ok THEN <<>>
        ELSE IF versions # <<>> /\ \E k \in 1..Len(versions) :
                                       ~version_parse(versions[k]).ok
        THEN <<>>
        ELSE SelectSeq(versions,
                       LAMBDA v : /\ version_lt(current_ver, version_parse(v))
                                  /\ up_to_target(version_parse(v),
                                                  target_ver))

\* _assess_upgrade_risk
assess_upgrade_risk(current_version, target_version) ==
    LET current_ver == version_parse(current_version)
        target_ver == version_parse(target_version)
    IN  IF ~current_ver.ok \/ ~target_ver.ok THEN "medium"
        ELSE IF target_ver.major > current_ver.major THEN "high"
        ELSE IF target_ver.minor > current_ver.minor THEN "medium"
        ELSE "low"

\* the dict of lines 384-391
generic_analysis(name, current_version, target_version, usage_examples) ==
    [dependency |-> name,
     current_version |-> current_version,
     target_version |-> target_version,
     usage_examples |-> usage_examples,
     previous_upgrades |-> <<>>,
     risk_assessment |-> assess_upgrade_risk(current_version, target_version)]

\* the dict of lines 371-379
npm_analysis(name, current_version, target_version, snippets, versions) ==
    [dependency |-> name,
     current_version |-> current_version,
     target_version |-> target_version,
     usage_examples |-> snippets,
     previous_upgrades |-> <<>>,
     intermediate_versions |->
         intermediate_versions_of(versions, current_version, target_version),
     risk_assessment |-> assess_upgrade_risk(current_version, target_version)]

\* a version of the registry that packaging does not parse: 1.0.0-x.7
SemverOnly == <<"1", ".", "0", ".", "0", "-", "x", ".", "7">>

\* the versions npm lists
ListedVersions ==
    {Dotted(<<major, minor, 0>>) : major \in 0..MaxListed,
                                   minor \in 0..MaxListed}
        \cup {SemverOnly}

\* the version arguments: two versions npm lists, a version of two
\* components and a string that is no version
VersionArguments ==
    {Dotted(<<0, 0, 0>>), Dotted(<<1, 0, 0>>), Dotted(<<1, 0>>), Star}

\* analyze_breaking_changes(dependency_name, current_version,
\* target_version) in a repository whose history does not name the
\* dependency; npm is the outcome of the npm view command: it exits with 0
\* and prints the listing, it exits with another status, or it cannot be
\* run
AnalyzeBreakingChanges ==
    /\ pc = "start"
    /\ project_type' = detect_project_type(files)
    /\ project_type' \in {"npm", "maven", "gradle"}
    /\ \E current_version \in VersionArguments,
          target_version \in VersionArguments,
          npm \in {"ok", "nonzero", "FileNotFoundError"} :
          \E r \in {walk_usage(project_type', repo_path, tree)},
             done \in {extract_loop(repo_path, tree,
                                    walk_usage(project_type', repo_path,
                                               tree).value,
                                    DefaultMaxExamples, {},
                                    [examples |-> <<>>, opened |-> <<>>])} :
              IF r.raised # ""
              THEN /\ raised' = r.raised
                   /\ pc' = "raised"
                   /\ UNCHANGED <<usages, examples, opened, report>>
              ELSE /\ usages' = r.value
                   /\ examples' = done.examples
                   /\ opened' = done.opened
                   /\ report' =
                          IF project_type' = "npm" /\ npm = "ok"
                          THEN npm_analysis(dependency_name, current_version,
                                            target_version, done.examples,
                                            registry_versions)
                          ELSE generic_analysis(dependency_name,
                                                current_version,
                                                target_version, done.examples)
                   /\ pc' = "reported"
                   /\ UNCHANGED raised
    /\ UNCHANGED <<files, temp_dir_exists, dependencies, scan_index,
                   min_severity, upgrade_candidates, audit, resolved, manifest,
                   written, dependency_name, target_dependency, steps,
                   run_result, exit_status, source>>
    /\ UNCHANGED <<package_name_candidates, repo_path, tree, max_examples,
                   registry_versions, affected_files, test_framework,
                   test_results>>

\* the listings of at most MaxVersions versions
Listings == UNION {[1..n -> ListedVersions] : n \in 0..MaxVersions}

\* one call of analyze_breaking_changes
InitBreaking ==
    /\ InitCommon
    /\ NoTests
    /\ manifest = <<>>
    /\ source = <<>>
    /\ min_severity = "medium"
    /\ max_examples = 0
    /\ repo_path = Repo
    /\ tree = <<[dir |-> <<>>, name |-> <<"a", ".", "j", "s">>,
                  content |-> UsageText("npm"), io |-> "ok",
                  reopen |-> "ok"]>>
    /\ files \in {{"package.json"}, {"pom.xml"}}
    /\ dependency_name = "lodash"
    /\ registry_versions \in Listings

NextBreaking == AnalyzeBreakingChanges

SpecBreaking == InitBreaking /\ [][NextBreaking]_vars

----------------------------------------------------------------------------
(* PRCreator.update_dependency for Maven and Gradle, and the Maven and     *)
(* Gradle manifest parsers of DependencyScanner                            *)

\* a pom.xml or a build.gradle is a sequence of tokens: the tags, the
\* quotes, ":", blanks and line ends are tokens of their own, a name is one
\* token, a version is its digits and dots

Quotes == {"'", "\""}

\* the tokens \s matches; Indent is the run of eight blanks of line 160
Indent == "        "

WhiteSpace == {" ", "\n", Indent}

\* the tokens that start with "<"
Tags ==
    {"<dependency>", "</dependency>", "<groupId>", "</groupId>",
     "<artifactId>", "</artifactId>", "<version>", "</version>",
     "<scope>", "</scope>"}

\* the first position from `from` on that holds one of the tokens, or 0
next_of(content, tokens, from) ==
    IF \E i \in from..Len(content) : content[i] \in tokens
    THEN CHOOSE i \in from..Len(content) :
             /\ content[i] \in tokens
             /\ \A j \in from..(i - 1) : content[j] \notin tokens
    ELSE 0

\* the first position from `from` on that holds none of the tokens, or
\* Len(content) + 1
skip_all(content, tokens, from) ==
    IF \E i \in from..Len(content) : content[i] \notin tokens
    THEN CHOOSE i \in from..Len(content) :
             /\ content[i] \notin tokens
             /\ \A j \in from..(i - 1) : content[j] \in tokens
    ELSE Len(content) + 1

\* content[at..] starts with the tokens
tokens_at(content, at, tokens) ==
    /\ at + Len(tokens) - 1 <= Len(content)
    /\ SubSeq(content, at, at + Len(tokens) - 1) = tokens

\* the end of the match of the pattern of line 159 that starts at i, or 0:
\* the three elements with only white space between them, the version not
\* empty
maven_pattern_end(content, i, group_id, artifact_id) ==
    LET g == skip_all(content, WhiteSpace, i + 1)
        a == skip_all(content, WhiteSpace, g + 3)
        v == skip_all(content, WhiteSpace, a + 3)
        e == next_of(content, Tags, v + 1)
    IN  IF /\ tokens_at(content, i, <<"<dependency>">>)
           /\ tokens_at(content, g, <<"<groupId>", group_id, "</groupId>">>)
           /\ tokens_at(content, a,
                        <<"<artifactId>", artifact_id, "</artifactId>">>)
           /\ tokens_at(content, v, <<"<version>">>)
           /\ e > v + 1
           /\ content[e] = "</version>"
        THEN e
        ELSE 0

\* the replacement of line 160
maven_replacement(group_id, artifact_id, target_version) ==
    <<"<dependency>", "\n", Indent, "<groupId>", group_id, "</groupId>",
      "\n", Indent, "<artifactId>", artifact_id, "</artifactId>", "\n",
      Indent, "<version>">> \o target_version \o <<"</version>">>

\* re.sub(pattern, replacement, content) from position `from` on
RECURSIVE maven_sub(_, _, _, _, _)
maven_sub(content, from, group_id, artifact_id, target_version) ==
    IF from > Len(content) THEN <<>>
    ELSE LET e == maven_pattern_end(content, from, group_id, artifact_id)
         IN  IF e = 0
             THEN <<content[from]>>
                      \o maven_sub(content, from + 1, group_id, artifact_id,
                                   target_version)
             ELSE maven_replacement(group_id, artifact_id, target_version)
                      \o maven_sub(content, e + 1, group_id, artifact_id,
                                   target_version)

\* the value returned and the content of pom.xml after the call; name is
\* the dependency name as tokens, io the outcome of opening the file
update_maven_dependency(fs, content, name, target_version, io) ==
    LET parts == split(name, ":")
    IN  IF "pom.xml" \notin fs
        THEN [returned |-> FALSE, content |-> content]
        ELSE IF Len(parts) # 2 \/ io # "ok"
        THEN [returned |-> FALSE, content |-> content]
        ELSE [returned |-> TRUE,
              content |-> maven_sub(content, 1, join(parts[1]),
                                    join(parts[2]), target_version)]

\* the end of the match of the pattern of line 198 that starts at i, or 0
gradle_pattern_end(content, i, group_id, artifact_id) ==
    LET e == next_of(content, Quotes, i + 7)
    IN  IF /\ tokens_at(content, i, <<"implementation", " ">>)
           /\ i + 2 <= Len(content) /\ content[i + 2] \in Quotes
           /\ tokens_at(content, i + 3, <<group_id, ":", artifact_id, ":">>)
           /\ e > i + 7
        THEN e
        ELSE 0

\* the replacement of line 199: "$1" is no group reference for re.sub and
\* stays in the text
gradle_replacement(group_id, artifact_id, target_version) ==
    <<"implementation", " ", "'", "$1">> \o target_version \o <<"'">>

RECURSIVE gradle_sub(_, _, _, _, _)
gradle_sub(content, from, group_id, artifact_id, target_version) ==
    IF from > Len(content) THEN <<>>
    ELSE LET e == gradle_pattern_end(content, from, group_id, artifact_id)
         IN  IF e = 0
             THEN <<content[from]>>
                      \o gradle_sub(content, from + 1, group_id, artifact_id,
                                    target_version)
             ELSE gradle_replacement(group_id, artifact_id, target_version)
                      \o gradle_sub(content, e + 1, group_id, artifact_id,
                                    target_version)

\* the value returned and the content of the build file after the call
update_gradle_dependency(fs, content, name, target_version, io) ==
    LET parts == split(name, ":")
    IN  IF "build.gradle" \notin fs /\ "build.gradle.kts" \notin fs
        THEN [returned |-> FALSE, content |-> content]
        ELSE IF Len(parts) # 2 \/ io # "ok"
        THEN [returned |-> FALSE, content |-> content]
        ELSE [returned |-> TRUE,
              content |-> gradle_sub(content, 1, join(parts[1]),
                                     join(parts[2]), target_version)]

\* the match of dep_pattern of _scan_maven_dependencies that starts at i:
\* every .*? runs to the next occurrence of what follows it; stop is 0 when
\* there is no match at i
maven_match_at(content, i) ==
    LET g1 == next_of(content, {"<groupId>"}, i + 1)
        g2 == IF g1 = 0 THEN 0 ELSE next_of(content, {"</groupId>"}, g1 + 1)
        a1 == IF g2 = 0 THEN 0 ELSE next_of(content, {"<artifactId>"}, g2 + 1)
        a2 == IF a1 = 0 THEN 0
              ELSE next_of(content, {"</artifactId>"}, a1 + 1)
        v1 == IF a2 = 0 THEN 0 ELSE next_of(content, {"<version>"}, a2 + 1)
        v2 == IF v1 = 0 THEN 0 ELSE next_of(content, {"</version>"}, v1 + 1)
        d == IF v2 = 0 THEN 0
             ELSE next_of(content, {"</dependency>"}, v2 + 1)
    IN  IF d = 0 THEN [stop |-> 0]
        ELSE [stop |-> d,
              group_id |-> SubSeq(content, g1 + 1, g2 - 1),
              artifact_id |-> SubSeq(content, a1 + 1, a2 - 1),
              current_version |-> SubSeq(content, v1 + 1, v2 - 1)]

\* lines 202-211: the entries of the matches from position `from` on
RECURSIVE scan_maven_content(_, _)
scan_maven_content(content, from) ==
    LET i == next_of(content, {"<dependency>"}, from)
        m == maven_match_at(content, i)
    IN  IF i = 0 \/ m.stop = 0 THEN <<>>
        ELSE <<Declared([name |-> m.group_id \o <<":">> \o m.artifact_id,
                         current_version |-> m.current_version,
                         type |-> "production"])>>
                 \o scan_maven_content(content, m.stop + 1)

\* the match of dep_pattern of _scan_gradle_dependencies that starts at i:
\* the two [^:]+ run to the next ":", [^'"]+ to the next quote, none empty
gradle_match_at(content, i) ==
    LET c1 == next_of(content, {":"}, i + 3)
        c2 == IF c1 = 0 THEN 0 ELSE next_of(content, {":"}, c1 + 1)
        q == IF c2 = 0 THEN 0 ELSE next_of(content, Quotes, c2 + 1)
    IN  IF /\ tokens_at(content, i, <<"implementation", " ">>)
           /\ i + 2 <= Len(content) /\ content[i + 2] \in Quotes
           /\ c1 > i + 3 /\ c2 > c1 + 1 /\ q > c2 + 1
        THEN [stop |-> q,
              group_id |-> SubSeq(content, i + 3, c1 - 1),
              artifact_id |-> SubSeq(content, c1 + 1, c2 - 1),
              current_version |-> SubSeq(content, c2 + 1, q - 1)]
        ELSE [stop |-> 0]

\* lines 262-271: the entries of the matches from position `from` on
RECURSIVE scan_gradle_content(_, _)
scan_gradle_content(content, from) ==
    IF from > Len(content) THEN <<>>
    ELSE LET m == gradle_match_at(content, from)
         IN  IF m.stop = 0 THEN scan_gradle_content(content, from + 1)
             ELSE <<Declared([name |-> m.group_id \o <<":">>
                                           \o m.artifact_id,
                              current_version |-> m.current_version,
                              type |-> "production"])>>
                      \o scan_gradle_content(content, m.stop + 1)

\* the entries the parser of a pip, Maven or Gradle project reads from the
\* manifest
scan_manifest(ptype, fs, content) ==
    IF ptype = "pip" THEN scan_pip_manifest(fs, content)
    ELSE IF ptype = "maven" THEN scan_maven_content(content, 1)
    ELSE scan_gradle_content(content, 1)

\* update_dependency(dependency_name, current_version, target_version) in
\* a project that is not an npm project
UpdateManifest ==
    /\ pc = "start"
    /\ project_type' = detect_project_type(files)
    /\ project_type' # "npm"
    /\ \E target_version \in {Dotted(<<2, 0, 0>>)},
          io \in {"ok", "PermissionError"} :
          LET r == IF project_type' = "pip"
                   THEN update_pip_dependency(files, manifest,
                                              dependency_name,
                                              target_version, io)
                   ELSE IF project_type' = "maven"
                   THEN update_maven_dependency(files, manifest,
                                                dependency_name,
                                                target_version, io)
                   ELSE IF project_type' = "gradle"
                   THEN update_gradle_dependency(files, manifest,
                                                 dependency_name,
                                                 target_version, io)
                   ELSE [returned |-> FALSE, content |-> manifest]
          IN  written' = [target_version |-> target_version,
                          returned |-> r.returned, content |-> r.content]
    /\ pc' = "updated"
    /\ UNCHANGED <<files, temp_dir_exists, dependencies, scan_index,
                   min_severity, upgrade_candidates, audit, raised, resolved,
                   manifest, dependency_name, target_dependency, steps,
                   run_result, exit_status, source, usages>>
    /\ UNCHANGED analyzerVars

GroupId == "com.x"

\* a dependency element of a pom.xml, with or without a scope element
\* before its version
PomDependency(artifact_id, scoped) ==
    <<"<dependency>", "\n", "<groupId>", GroupId, "</groupId>", "\n",
      "<artifactId>", artifact_id, "</artifactId>", "\n">>
        \o (IF scoped THEN <<"<scope>", "test", "</scope>", "\n">> ELSE <<>>)
        \o <<"<version>">> \o Dotted(<<1, 0, 0>>)
        \o <<"</version>", "\n", "</dependency>", "\n">>

PomDependencies ==
    {PomDependency(artifact_id, scoped) :
        artifact_id \in {"a", "b"}, scoped \in BOOLEAN}

\* the pom.xml files of at most MaxDeps dependency elements
PomTexts ==
    UNION {{writelines(ds) : ds \in [1..n -> PomDependencies]} :
              n \in 0..MaxDeps}

\* a line of a build.gradle
GradleLines ==
    {<<"implementation", " ", q, GroupId, ":", artifact_id, ":">>
         \o Dotted(<<1, 0, 0>>) \o <<q>> :
        q \in Quotes, artifact_id \in {"a", "b"}}
        \cup {<<"mavenCentral()">>}

\* the build.gradle files of at most MaxDeps lines
GradleTexts ==
    UNION {{TextOf(lines, TRUE) : lines \in [1..n -> GradleLines]} :
              n \in 0..MaxDeps}

\* the names of a Maven or Gradle dependency: declared ones, one that is
\* not declared, and one without a group
JavaDependencyNames ==
    {<<GroupId, ":", "a">>, <<GroupId, ":", "b">>, <<GroupId, ":", "c">>,
     <<"a">>}

\* one update of the manifest of a pip, Maven or Gradle project
InitUpgrade ==
    /\ InitCommon
    /\ NoTests
    /\ NoTree
    /\ min_severity = "medium"
    /\ source = <<>>
    /\ \/ /\ files = {"requirements.txt"}
          /\ manifest \in RequirementsTexts({TRUE, FALSE})
          /\ dependency_name \in {"flask", "numpy"}
       \/ /\ files = {"pom.xml"}
          /\ manifest \in PomTexts
          /\ dependency_name \in JavaDependencyNames
       \/ /\ files \in {{"build.gradle"}, {"build.gradle.kts"}}
          /\ manifest \in GradleTexts
          /\ dependency_name \in JavaDependencyNames
       \/ /\ files = {}
          /\ manifest = <<>>
          /\ dependency_name = "flask"

NextUpgrade == UpdateManifest

SpecUpgrade == InitUpgrade /\ [][NextUpgrade]_vars

----------------------------------------------------------------------------
(* Properties *)

Enriched == {dependencies[i] : i \in 1..scan_index}

CurrentOf(dep) == ParseFor(project_type, dep.current_version)

LatestOf(dep) == ParseFor(project_type, dep.latest_version)

BothParse(dep) == CurrentOf(dep).ok /\ LatestOf(dep).ok

Tuple(v) == <<v.major, v.minor, v.patch>>

\* a < b in the lexicographic order on (major, minor, patch)
LexLess(a, b) ==
    \/ a.major < b.major
    \/ (a.major = b.major /\ a.minor < b.minor)
    \/ (a.major = b.major /\ a.minor = b.minor /\ a.patch < b.patch)

\* C1: for every combination of marker files detect_project_type returns
\* exactly one tag, by the first match of package.json -> npm, pom.xml ->
\* maven, requirements.txt or setup.py -> pip, build.gradle or
\* build.gradle.kts -> gradle, else unknown.
C1_FirstMatchWins ==
    pc = "detected" =>
        LET npm == "package.json" \in files
            maven == "pom.xml" \in files
            pip == "requirements.txt" \in files \/ "setup.py" \in files
            gradle == "build.gradle" \in files \/ "build.gradle.kts" \in files
        IN  /\ project_type \in {"npm", "maven", "pip", "gradle", "unknown"}
            /\ (project_type = "npm") <=> npm
            /\ (project_type = "maven") <=> (~npm /\ maven)
            /\ (project_type = "pip") <=> (~npm /\ ~maven /\ pip)
            /\ (project_type = "gradle") <=> (~npm /\ ~maven /\ ~pip /\ gradle)
            /\ (project_type = "unknown") <=> (files = {})

\* a polyglot repository: pom.xml wins over requirements.txt and build.gradle
C1_Witness ==
    /\ pc = "detected"
    /\ files = {"pom.xml", "requirements.txt", "build.gradle"}
    /\ project_type = "maven"

\* C2: when the current and the latest version both parse, update_type is
\* none if the two strings are equal, else major if latest.major >
\* current.major, else minor if latest.minor > current.minor, else patch; a
\* larger latest major gives major whatever the minor and patch are.
C2_UpdateTypeRule ==
    \A dep \in Enriched :
        BothParse(dep) =>
            LET c == CurrentOf(dep)
                l == LatestOf(dep)
            IN  /\ (dep.latest_version = dep.current_version) =>
                       dep.update_type = "none"
                /\ (dep.latest_version # dep.current_version /\ l.major > c.major) =>
                       dep.update_type = "major"
                /\ (dep.latest_version # dep.current_version /\ l.major <= c.major
                      /\ l.minor > c.minor) =>
                       dep.update_type = "minor"
                /\ (dep.latest_version # dep.current_version /\ l.major <= c.major
                      /\ l.minor <= c.minor) =>
                       dep.update_type = "patch"

\* a larger major with a smaller minor is a major update
C2_Witness ==
    \E dep \in Enriched :
        /\ BothParse(dep)
        /\ LatestOf(dep).major > CurrentOf(dep).major
        /\ LatestOf(dep).minor < CurrentOf(dep).minor
        /\ dep.update_type = "major"

\* C3: version pairs whose parsed (major, minor, patch) tuples are equal are
\* classified none, also when the two strings differ.
C3_EqualTuplesAreNone ==
    \A dep \in Enriched :
        (BothParse(dep) /\ Tuple(CurrentOf(dep)) = Tuple(LatestOf(dep))) =>
            dep.update_type = "none"

\* C4: when both versions parse, major is given only if latest.major >
\* current.major, minor only if the majors are equal and latest.minor >
\* current.minor, and a latest version below the current one in the order on
\* (major, minor, patch) is never labelled major or minor.
C4_LabelFollowsOrder ==
    \A dep \in Enriched :
        BothParse(dep) =>
            LET c == CurrentOf(dep)
                l == LatestOf(dep)
            IN  /\ dep.update_type = "major" => l.major > c.major
                /\ dep.update_type = "minor" =>
                       (l.major = c.major /\ l.minor > c.minor)
                /\ LexLess(l, c) => dep.update_type \notin {"major", "minor"}

\* C5: a dependency whose current or latest version string does not parse
\* (the two strings being different) gets update_type unknown, no exception
\* escapes, and the scan is at the next dependency or has finished the list.
C5_UnparseableIsUnknown ==
    \A dep \in Enriched :
        (dep.latest_version # dep.current_version /\ ~BothParse(dep)) =>
            /\ dep.update_type = "unknown"
            /\ raised = ""
            /\ \/ pc = "enrich" /\ scan_index < Len(dependencies)
               \/ pc \in {"scanned", "done"} /\ scan_index = Len(dependencies)

\* the first dependency does not parse; the second one was classified after it
C5_Witness ==
    /\ pc = "scanned"
    /\ Len(dependencies) = 2
    /\ dependencies[1].current_version = Star
    /\ dependencies[1].latest_version # Unknown
    /\ dependencies[1].update_type = "unknown"
    /\ dependencies[2].update_type = "minor"

SeverityRank(severity) ==
    CASE severity = "low" -> 1
      [] severity = "medium" -> 2
      [] severity = "high" -> 3
      [] severity = "critical" -> 4
      [] OTHER -> 0

\* C6: a candidate has priority high exactly when one of its vulnerabilities
\* has a severity at or above min_severity in low < medium < high < critical;
\* otherwise medium when update_type is patch; otherwise low.
C6_PriorityRule ==
    pc = "done" =>
        \A i \in 1..Len(upgrade_candidates) :
            LET c == upgrade_candidates[i]
                qualifying ==
                    \E k \in 1..Len(c.vulnerabilities) :
                        /\ c.vulnerabilities[k].severity \in Severities
                        /\ SeverityRank(c.vulnerabilities[k].severity)
                              >= SeverityRank(min_severity)
            IN  c.priority = IF qualifying THEN "high"
                             ELSE IF c.update_type = "patch" THEN "medium"
                             ELSE "low"

ScanPosition(name) ==
    CHOOSE k \in 1..Len(dependencies) : dependencies[k].name = name

\* C7: the returned list is sorted by non-decreasing priority rank (high 0,
\* medium 1, low 2) and candidates of equal priority are in scan order.
C7_SortedStable ==
    pc = "done" =>
        \A i \in 1..Len(upgrade_candidates), j \in 1..Len(upgrade_candidates) :
            i < j =>
                LET a == upgrade_candidates[i]
                    b == upgrade_candidates[j]
                IN  /\ priority_rank(a.priority) <= priority_rank(b.priority)
                    /\ priority_rank(a.priority) = priority_rank(b.priority) =>
                           ScanPosition(a.name) < ScanPosition(b.name)

\* the vulnerable dependency was scanned second and is returned first, before
\* the dependency with a patch-level bump
C7_Witness ==
    /\ pc = "done"
    /\ Len(upgrade_candidates) = 2
    /\ upgrade_candidates[1].name = PackageNames[2]
    /\ upgrade_candidates[1].priority = "high"
    /\ upgrade_candidates[1].vulnerabilities # <<>>
    /\ upgrade_candidates[2].name = PackageNames[1]
    /\ upgrade_candidates[2].update_type = "patch"
    /\ upgrade_candidates[2].priority = "medium"

\* C8: the candidate list holds exactly the scanned dependencies whose
\* latest_version is not "unknown" and differs from current_version, each
\* once.
C8_ExactlyUpgradable ==
    pc = "done" =>
        /\ \A k \in 1..Len(dependencies) :
              (/\ dependencies[k].latest_version # Unknown
               /\ dependencies[k].latest_version # dependencies[k].current_version)
              <=> \E i \in 1..Len(upgrade_candidates) :
                     /\ upgrade_candidates[i].name = dependencies[k].name
                     /\ upgrade_candidates[i].current_version
                           = dependencies[k].current_version
                     /\ upgrade_candidates[i].latest_version
                           = dependencies[k].latest_version
        /\ \A i \in 1..Len(upgrade_candidates) :
              \E k \in 1..Len(dependencies) :
                  upgrade_candidates[i].name = dependencies[k].name
        /\ \A i \in 1..Len(upgrade_candidates), j \in 1..Len(upgrade_candidates) :
              upgrade_candidates[i].name = upgrade_candidates[j].name => i = j

\* the first dependency is unresolved and left out, the second has a newer
\* version and is the only candidate
C8_Witness ==
    /\ pc = "done"
    /\ Len(dependencies) = 2
    /\ dependencies[1].latest_version = Unknown
    /\ dependencies[2].latest_version # Unknown
    /\ dependencies[2].latest_version # dependencies[2].current_version
    /\ Len(upgrade_candidates) = 1
    /\ upgrade_candidates[1].name = dependencies[2].name

\* C9: after every call of the vulnerability check on an npm project the
\* scratch directory temp_audit does not exist, whichever step failed:
\* making the directory, writing the manifest, starting the audit, parsing
\* its output, or the first removal (the second removal, where one is
\* attempted, succeeds).
C9_ScratchDirRemoved ==
    (/\ pc \in {"checked", "raised"}
     /\ "package.json" \in files
     /\ audit.env.rmtree_retry = "ok") =>
        ~temp_dir_exists

\* C10: _check_vulnerabilities never raises; a missing audit tool, malformed
\* output or a filesystem error gives the empty list; without package.json
\* the result is the empty list and neither the scratch directory is made
\* nor a subprocess run.
C10_NeverRaises ==
    pc # "start" =>
        /\ pc = "checked"
        /\ raised = ""
        /\ (\/ audit.env.makedirs # "ok"
            \/ audit.env.write # "ok"
            \/ audit.env.run # "ok"
            \/ audit.env.rmtree # "ok"
            \/ audit.env.stdout.kind \in {"malformed", "not_object", "not_dict"}
            \/ audit.env.stdout.entry.fixAvailable = "true")
              => audit.result = <<>>
        /\ "package.json" \notin files =>
              /\ audit.result = <<>>
              /\ ~audit.makedirs_called
              /\ ~audit.run_called
              /\ ~temp_dir_exists

\* npm is not installed: the call returns the empty list
C10_Witness ==
    /\ pc = "checked"
    /\ "package.json" \in files
    /\ audit.env.makedirs = "ok" /\ audit.env.write = "ok"
    /\ audit.env.run = "FileNotFoundError"
    /\ audit.result = <<>>
    /\ raised = ""

\* the failures of a lookup: the request raises, the status is not 200, the
\* body is not JSON, a member the resolver reads is missing, or the Maven
\* name is not exactly group:artifact
LookupFails(call) ==
    \/ call.response.get # "ok"
    \/ call.response.status_code # 200
    \/ call.response.body.kind \in {"malformed", "no_field", "no_version"}
    \/ /\ call.registry = "maven"
       /\ \/ Len(split(call.package_name, ":")) # 2
          \/ /\ call.response.body.kind = "version"
             /\ call.response.body.numFound > 0
             /\ call.response.body.docs \in {"absent", "empty", "no_version"}

\* C11: a resolver whose lookup fails (network failure, non-200 status,
\* unparseable body, missing field, Maven name not group:artifact) returns
\* the string "unknown" and raises nothing.
C11_ResolverFailsSoft ==
    (pc # "start" /\ LookupFails(resolved))
        => (raised = "" /\ pc = "resolved" /\ resolved.result = Unknown)

\* a Maven lookup of a three-part name has returned "unknown"
C11_Witness ==
    /\ pc = "resolved"
    /\ resolved.registry = "maven"
    /\ Len(split(resolved.package_name, ":")) = 3
    /\ resolved.response.get = "ok"
    /\ resolved.response.status_code = 200
    /\ resolved.response.body.kind = "version"
    /\ resolved.result = Unknown

\* C12: scan_dependencies of a repository whose manifest is absent (no
\* marker file at all, or setup.py alone) returns the empty list and
\* raises nothing.
C12_AbsentManifestIsEmpty ==
    (pc # "start" /\ files \subseteq {"setup.py"})
        => (raised = "" /\ dependencies = <<>>)

\* the entries the scan has read from the manifest
Scanned == pc \in {"enrich", "scanned"}

\* C13: no two entries of one scan result have the same name.
C13_NamesUnique ==
    Scanned =>
        \A i \in 1..Len(dependencies), j \in 1..Len(dependencies) :
            i # j => dependencies[i].name # dependencies[j].name

\* the declarations of a package.json in the order the scan reads them
DeclaredInManifest == manifest.dependencies \o manifest.devDependencies

\* a declared range without its leading ^ or ~
WithoutLeadingOperator(range) ==
    IF range # <<>> /\ Head(range) \in {"^", "~"} THEN Tail(range) ELSE range

\* C14: the current_version of an npm entry is the declared string with its
\* leading ^ or ~ removed and every other character kept.
C14_LeadingOperatorStripped ==
    (Scanned /\ project_type = "npm") =>
        /\ Len(dependencies) = Len(DeclaredInManifest)
        /\ \A i \in 1..Len(dependencies) :
              dependencies[i].current_version =
                  WithoutLeadingOperator(DeclaredInManifest[i].version)

\* a line of the exact form name==version, blanks aside
WithoutBlanks(line) ==
    replace_with_empty(replace_with_empty(line, " "), "\n")

IsExactPin(line) ==
    LET t == WithoutBlanks(line)
    IN  /\ Len(t) >= 3
        /\ t[1] \in {"flask", "requests"}
        /\ t[2] = "=="
        /\ IsDottedNumbers(SubSeq(t, 3, Len(t)))

\* name and version of the exact-pin lines, in file order
RECURSIVE ExactPins(_)
ExactPins(lines) ==
    IF lines = <<>> THEN <<>>
    ELSE LET t == WithoutBlanks(Head(lines))
         IN  (IF IsExactPin(Head(lines))
              THEN <<[name |-> t[1], current_version |-> SubSeq(t, 3, Len(t))]>>
              ELSE <<>>) \o ExactPins(Tail(lines))

\* C15: the scan of requirements.txt yields one entry per line of the exact
\* form name==version and none for any other line (blank, comment, >=,
\* extras, compound specifier).
C15_ExactPinsOnly ==
    (Scanned /\ project_type = "pip" /\ "requirements.txt" \in files) =>
        [i \in 1..Len(dependencies) |->
            [name |-> dependencies[i].name,
             current_version |-> dependencies[i].current_version]]
          = ExactPins(readlines(manifest))

\* the lines of a text without their line ends
TextLines(text) ==
    LET lines == readlines(text)
    IN  [i \in 1..Len(lines) |-> replace_with_empty(lines[i], "\n")]

\* C16: after a successful _update_pip_dependency, if no line pinned the
\* name the file is the old lines unchanged followed by exactly one new
\* line name==target (also when the old last line had no line end); if a
\* line pinned it, that line reads name==target and every other line is
\* as it was.
C16_UpdateKeepsOtherLines ==
    (pc = "updated" /\ written.returned) =>
        LET old == TextLines(manifest)
            new == TextLines(written.content)
            pin == <<dependency_name, "==">> \o written.target_version
        IN  IF \E i \in 1..Len(old) : pins(old[i], dependency_name)
            THEN /\ Len(new) = Len(old)
                 /\ \A i \in 1..Len(old) :
                       new[i] = IF pins(old[i], dependency_name) THEN pin
                                ELSE old[i]
            ELSE new = old \o <<pin>>

\* run has ended: it returned a dict or an exception left it
RunEnded == pc \in {"returned", "raised", "exited"}

\* C17: a run given a name that is not in the candidate list returns
\* success=False with a message, raises nothing and performs no branch
\* creation, manifest write, commit, push or pull request; a run given no
\* name selects the first candidate of the ordered list, whose priority rank
\* is at most that of every other candidate.
C17_UnknownNameFailsCleanly ==
    /\ (/\ RunEnded
        /\ dependency_name # ""
        /\ \A i \in 1..Len(upgrade_candidates) :
              upgrade_candidates[i].name # dependency_name)
           => /\ raised = ""
              /\ ~run_result.success
              /\ run_result.message # ""
              /\ steps = <<>>
    /\ (pc = "selected" /\ dependency_name = "")
           => /\ target_dependency = <<upgrade_candidates[1]>>
              /\ \A i \in 1..Len(upgrade_candidates) :
                    priority_rank(target_dependency[1].priority)
                        <= priority_rank(upgrade_candidates[i].priority)

\* C18: the process ends with status 0 only when run returned success=True;
\* a failure result (not found, any step failure) ends it with a non-zero
\* status.
C18_ExitStatusReflectsSuccess ==
    pc = "exited" => (exit_status = 0 <=> (raised = "" /\ run_result.success))

\* C19: every invocation of run returns a result dict; no exception leaves
\* run, whichever collaborator step fails.
C19_NoExceptionLeavesRun ==
    RunEnded => raised = ""

\* the offsets at which the reported matches start, in report order
MatchStarts ==
    IF project_type = "npm"
    THEN [k \in 1..Len(js_matches(source)) |-> js_matches(source)[k].start]
    ELSE LET ms == SelectSeq(java_matches(source, 1),
                             LAMBDA m : \E k \in 1..Len(m.group) :
                                            m.group[k] \in CandidateTokens)
         IN  [k \in 1..Len(ms) |-> ms[k].start]

\* the offset before the first character of line n of the text
RECURSIVE LineOffset(_, _)
LineOffset(lines, n) ==
    IF n = 1 THEN 0 ELSE LineOffset(lines, n - 1) + Len(lines[n - 1]) + 1

\* the 1-based number of the line that holds offset p
LineHolding(text, p) ==
    LET lines == split(text, "\n")
    IN  CHOOSE n \in 1..Len(lines) :
            LineOffset(lines, n) < p /\ p <= LineOffset(lines, n) + Len(lines[n])

\* C20: the line of every usage hit is the 1-based number of the source
\* line on which its match starts, and its context is the text of that
\* line without leading and trailing white space.
C20_HitLineIsMatchLine ==
    pc = "found" =>
        \/ usages = <<>>
        \/ /\ Len(usages) = Len(MatchStarts)
           /\ \A k \in 1..Len(usages) :
                 LET n == LineHolding(source, MatchStarts[k])
                 IN  /\ usages[k].line = n
                     /\ usages[k].context = strip(split(source, "\n")[n])

\* a hit on the third line of a file, for a match that starts after leading
\* white space
C20_Witness ==
    /\ pc = "found"
    /\ \E k \in 1..Len(usages) :
          /\ usages[k].line = 3
          /\ MatchStarts[k] > LineOffset(split(source, "\n"), 3) + 1

\* the artifact id of a name: what follows the ":" of a name with exactly
\* one ":", else the whole name
ArtifactId(name) ==
    LET colons == {i \in 1..Len(name) : name[i] = ":"}
    IN  IF Cardinality(colons) = 1
        THEN LET i == CHOOSE x \in colons : TRUE
             IN  SubSeq(name, i + 1, Len(name))
        ELSE name

WithoutHyphens(s) == SelectSeq(s, LAMBDA c : c # "-")

SameLetters(x, y) ==
    Len(x) = Len(y) /\ \A k \in 1..Len(x) : lower(x[k]) = lower(y[k])

IsUpperOrNoLetter(c) == \A i \in 1..Len(LowerCase) : LowerCase[i] # c

\* candidate c is the artifact id a without its hyphens, every character
\* that follows a hyphen in upper case; the first character is as it is in
\* a (camelCase) or in upper case (PascalCase)
IsCaseForm(c, a, pascal) ==
    /\ SameLetters(c, WithoutHyphens(a))
    /\ \A i \in 1..Len(a) :
          LET k == Len(WithoutHyphens(SubSeq(a, 1, i)))
          IN  /\ (a[i] # "-" /\ i > 1 /\ a[i - 1] = "-")
                    => IsUpperOrNoLetter(c[k])
              /\ (a[i] # "-" /\ \A j \in 1..i : a[j] # "-")
                    => IF pascal /\ i = 1 THEN IsUpperOrNoLetter(c[k])
                       ELSE i > 1 \/ c[k] = a[i]

\* C21: for an artifact id with hyphens the candidates are the id itself,
\* its camelCase form and its PascalCase form; for one without hyphens the
\* id alone; a name without exactly one ":" is the artifact id as a whole.
C21_CandidateForms ==
    pc = "candidates" =>
        LET a == ArtifactId(dependency_name)
            c == package_name_candidates
        IN  IF \E i \in 1..Len(a) : a[i] = "-"
            THEN /\ Len(c) = 3
                 /\ c[1] = a
                 /\ IsCaseForm(c[2], a, FALSE)
                 /\ IsCaseForm(c[3], a, TRUE)
            ELSE c = <<a>>

\* spring-boot-starter gives spring-boot-starter, springBootStarter and
\* SpringBootStarter
C21_Witness ==
    /\ pc = "candidates"
    /\ package_name_candidates =
          <<SpringBootStarter,
            <<"s", "p", "r", "i", "n", "g", "B", "o", "o", "t",
              "S", "t", "a", "r", "t", "e", "r">>,
            <<"S", "p", "r", "i", "n", "g", "B", "o", "o", "t",
              "S", "t", "a", "r", "t", "e", "r">>>>

\* the relative paths of the files with a hit
FilesWithHits == {usages[k].file : k \in 1..Len(usages)}

\* C22: a walk in which a source file cannot be opened or read raises
\* nothing, and the hits of every readable file it visits are returned.
C22_UnreadableFileIsSkipped ==
    pc \in {"found", "raised"} =>
        /\ raised = ""
        /\ \A i \in 1..Len(tree) :
              (visited(project_type, repo_path, tree[i]) /\ tree[i].io = "ok")
                  => relative_path(tree[i]) \in FilesWithHits

\* some directory of the file's path below the root is named as one of the
\* non-source directories
InNonSourceDirectory(ptype, file) ==
    \E k \in 1..Len(split(file.dir, "/")) :
        split(file.dir, "/")[k] \in skip_names(ptype)

\* C26: a readable file with a matching extension is scanned exactly when
\* no directory of its path below the root is a non-source directory; a
\* name that merely contains such a name (.github, rebuild, the repository
\* path) does not exclude it.
C26_SkipsByDirectoryName ==
    pc = "found" =>
        \A i \in 1..Len(tree) :
            ((\E suffix \in extensions(project_type) :
                  endswith(tree[i].name, suffix)) /\ tree[i].io = "ok")
                => (relative_path(tree[i]) \in FilesWithHits
                        <=> ~InNonSourceDirectory(project_type, tree[i]))

\* the lines of a text
LinesOf(content) == split(content, "\n")

\* the example extract_api_usage_examples built for the only file of the
\* tree
TheExample == examples[1]

\* the lines first..last of a text (counted from 1), behind the header of
\* an example
ExampleWith(file, content, first, last) ==
    format_example(relative_path(file),
                   join_lines(SubSeq(LinesOf(content), first, last)))

\* C23: the snippet of a usage example is the window of the file from 5
\* lines before the hit line to 15 lines after it, clipped to the file: far
\* from both ends it has the 5 preceding lines, the hit line and the 15
\* following lines
C23_WindowFiveBeforeFifteenAfter ==
    (pc = "extracted" /\ Len(tree) = 1 /\ usages # <<>>)
        => LET hit == usages[1].line
               count == Len(LinesOf(tree[1].content))
               first == IF hit - 5 >= 1 THEN hit - 5 ELSE 1
               last == IF hit + 15 <= count THEN hit + 15 ELSE count
           IN  examples
                   = <<ExampleWith(tree[1], tree[1].content, first, last)>>

\* the example is the one of the file: its header names the file
IsExampleOf(example, file) ==
    LET header == <<"File: ">> \o relative_path(file) \o <<"\n">>
    IN  /\ Len(example) >= Len(header)
        /\ SubSeq(example, 1, Len(header)) = header

\* C24: extract_api_usage_examples never returns more than max_examples
\* snippets, for every max_examples >= 0, and once it has that many it
\* visits no further file: the file opened last is the one of the last
\* snippet
C24_AtMostMaxExamples ==
    pc = "extracted" =>
        /\ Len(examples) <= max_examples
        /\ (examples # <<>> /\ Len(examples) >= max_examples)
              => \E i \in 1..Len(tree) :
                    /\ opened[Len(opened)]
                           = path_join(repo_path, relative_path(tree[i]))
                    /\ IsExampleOf(examples[Len(examples)], tree[i])

\* the line of the first hit find_dependency_usage lists for the file
FirstHitLine(file) ==
    LET k == CHOOSE x \in 1..Len(usages) :
                 /\ usages[x].file = relative_path(file)
                 /\ \A y \in 1..(x - 1) :
                       usages[y].file # relative_path(file)
    IN  usages[k].line

NoDuplicates(list) ==
    \A i, j \in 1..Len(list) : i # j => list[i] # list[j]

\* C25: extract_api_usage_examples opens each file at most once and builds
\* at most one snippet for each distinct file, around the first hit listed
\* for that file; get_affected_files returns each file that has a hit
\* exactly once
C25_OneSnippetPerFile ==
    /\ pc = "extracted" =>
          /\ NoDuplicates(opened)
          /\ \A i \in 1..Len(tree) :
                Cardinality({k \in 1..Len(examples) :
                                IsExampleOf(examples[k], tree[i])}) <= 1
          /\ \A k \in 1..Len(examples) :
                \E i \in 1..Len(tree) :
                    /\ relative_path(tree[i]) \in FilesWithHits
                    /\ examples[k]
                           = format_example(
                                 relative_path(tree[i]),
                                 snippet_of(tree[i].content,
                                            FirstHitLine(tree[i])))
    /\ pc = "affected" =>
          /\ NoDuplicates(affected_files)
          /\ {affected_files[k] : k \in 1..Len(affected_files)}
                 = FilesWithHits

\* a file with two hits was read and another file was opened after it
C25_Witness ==
    /\ pc = "extracted"
    /\ Len(tree) = 2
    /\ tree[1].content = TwoUsagesText
    /\ Len(opened) = 2
    /\ Len(examples) = 2

\* the report has the list of intermediate versions
HasIntermediateVersions == "intermediate_versions" \in DOMAIN report

\* C27: the intermediate_versions of an npm analysis are exactly the
\* listed versions v with current < v < target, both ends excluded, in the
\* order of the listing, and the list is empty when a version cannot be
\* parsed
C27_IntermediateExcludesBothEnds ==
    (pc = "reported" /\ HasIntermediateVersions)
        => LET current_ver == version_parse(report.current_version)
               target_ver == version_parse(report.target_version)
               all_parse ==
                   /\ current_ver.ok
                   /\ target_ver.ok
               listed_parse ==
                   \A k \in 1..Len(registry_versions) :
                       version_parse(registry_versions[k]).ok
           IN  IF all_parse /\ listed_parse
               THEN report.intermediate_versions
                        = SelectSeq(registry_versions,
                              LAMBDA v :
                                  /\ LexLess(current_ver, version_parse(v))
                                  /\ LexLess(version_parse(v), target_ver))
               ELSE report.intermediate_versions = <<>>

\* the steps of run that change the repository or the forge, in the order
\* of the code
SideEffecting ==
    <<"create_branch", "update_dependency", "commit_changes", "push_branch",
      "create_pull_request">>

IsSideEffecting(step) ==
    \E k \in 1..Len(SideEffecting) : SideEffecting[k] = step.name

\* the side-effecting steps run has attempted, in order
Attempted == SelectSeq(steps, IsSideEffecting)

\* C28: the side-effecting steps of run occur only in the order
\* create_branch, update_dependency, commit_changes, push_branch,
\* create_pull_request, each is attempted only if every earlier one
\* reported success, and run returns success = True exactly when
\* create_pull_request reported success.
C28_SideEffectsInOrder ==
    /\ Len(Attempted) <= Len(SideEffecting)
    /\ \A k \in 1..Len(Attempted) :
          /\ Attempted[k].name = SideEffecting[k]
          /\ \A j \in 1..(k - 1) : Attempted[j].outcome = "ok"
    /\ pc = "returned" =>
          (run_result.success
              <=> /\ Len(Attempted) = Len(SideEffecting)
                  /\ Attempted[Len(Attempted)].outcome = "ok")

\* a run that stopped at a failed commit, after a branch and an update
C28_Witness ==
    /\ pc = "returned"
    /\ Len(Attempted) = 3
    /\ Attempted[3].outcome = "falsy"
    /\ ~run_result.success

LastStep == steps[Len(steps)]

\* C29: the outcome of run_tests does not change the control flow of run:
\* whether the tests pass, fail or the runner raises, run goes on to
\* push_branch with nothing returned or raised, the same outcomes of
\* push_branch and create_pull_request are open to it, and the test result
\* appears only in what is handed to the PR-description collaborator.
C29_TestsDoNotGate ==
    /\ (steps # <<>> /\ LastStep.name = "run_tests"
            /\ LastStep.outcome = "ok")
          => (pc = "tested" /\ raised = "" /\ run_result = NoResult)
    /\ pc = "tested" =>
          /\ ENABLED (PushBranch /\ pc' = "pushed")
          /\ ENABLED (PushBranch /\ pc' = "returned")
    /\ pc = "described" =>
          /\ ENABLED (CreatePullRequest /\ run_result'.success)
          /\ ENABLED (CreatePullRequest /\ ~run_result'.success)
    /\ \A k \in 1..Len(steps) :
          IF steps[k].name = "create_pr_description"
          THEN steps[k].test_results = test_results
          ELSE DOMAIN steps[k] = {"name", "outcome"}
    /\ pc = "returned" => DOMAIN run_result = {"success", "message"}

\* a pull request was created although the tests failed
C29_Witness ==
    /\ pc = "returned"
    /\ run_result.success
    /\ test_results # <<>>
    /\ ~test_results.success
    /\ test_results.error = ""

\* name and version of the entries a manifest parse reports
Reported(content) ==
    LET entries == scan_manifest(project_type, files, content)
    IN  [k \in 1..Len(entries) |->
            [name |-> entries[k].name,
             current_version |-> entries[k].current_version]]

\* the name of the updated dependency as the parsers report it
ReportedName == dependency_name

IsOther(entry) == entry.name # ReportedName

\* C30: whenever update_dependency returns True for a pip, Maven or Gradle
\* project, a parse of the manifest it wrote reports an entry with the name
\* of the dependency and the target version as current_version, and
\* reports every other declared dependency as the parse before the update
\* did.
C30_UpdateThenParse ==
    (pc = "updated" /\ project_type \in {"pip", "maven", "gradle"}
         /\ written.returned)
        => /\ \E k \in 1..Len(Reported(written.content)) :
                 /\ Reported(written.content)[k].name = ReportedName
                 /\ Reported(written.content)[k].current_version
                        = written.target_version
           /\ SelectSeq(Reported(written.content), IsOther)
                  = SelectSeq(Reported(manifest), IsOther)

====
